---- MODULE Spec2Model ----
(***************************************************************************)
(* File-tree synchronization engine of OpenDev Studio's web client         *)
(* (frontend/src/App.jsx, frontend/src/utils/fileHelpers.js): the tree     *)
(* helpers as recursive operators, and the component AgenticIDE as a state *)
(* machine with one action per handler, effect, timer and I/O completion.  *)
(***************************************************************************)
EXTENDS Integers, Sequences, FiniteSets, TLC

\* ------------------------------------------------------------------ values

\* JavaScript's null (useState(null), useRef(null)) and undefined.
Null == "null"
Undef == "undefined"

\* Bounds of the model: edits typed, GET /files and (per file) GET
\* /files/content requests in flight, pending setTimeout(..., 0) callbacks.
MaxEdits == 2
MaxTreeReqs == 2
MaxFetch == 1
MaxTimeouts == 1

\* Bounds of the chat and of the explorer's delete: frames dispatched by
\* onmessage, chat messages shown, POST /files/delete requests in flight.
MaxFrames == 3
MaxMessages == 4
MaxDialogs == 2

MaxOrphans == 1

MaxDeletes == 1

\* File contents: what the user types and what the backend serves.
Typed == {"e1", "e2"}

Served == {"s1"}

\* ---------------------------------------------------------------- strings
\* A string is a sequence of characters where its characters matter (node
\* names, search terms, paths).

\* A lowering that leaves every character as it is.
toLowerCase_Identity(str) == str

toLowerCase(str) ==
    [k \in 1..Len(str) |->
        CASE str[k] = "X" -> "x" [] str[k] = "J" -> "j" [] str[k] = "A" -> "a" [] OTHER -> str[k]]

\* str.includes(sub)
includes(str, sub) ==
    \E i \in 0..(Len(str) - Len(sub)) : SubSeq(str, i + 1, i + Len(sub)) = sub

\* str.lastIndexOf(ch), 0-based, -1 when ch does not occur.
lastIndexOf(str, ch) ==
    IF \E k \in 1..Len(str) : str[k] = ch
    THEN (CHOOSE k \in 1..Len(str) : str[k] = ch /\ \A j \in (k + 1)..Len(str) : str[j] # ch) - 1
    ELSE -1

\* str.substring(start, end): an index below 0 is 0, above the length is the
\* length, and the two are swapped when start > end.
substring(str, start, end) ==
    LET clamp(n) == IF n < 0 THEN 0 ELSE IF n > Len(str) THEN Len(str) ELSE n
        lo == IF clamp(start) <= clamp(end) THEN clamp(start) ELSE clamp(end)
        hi == IF clamp(start) <= clamp(end) THEN clamp(end) ELSE clamp(start)
    IN SubSeq(str, lo + 1, hi)

\* No selection: findNodeById is not called, or returns null.
NoNode == [found |-> FALSE, id |-> <<>>, type |-> Undef, dir |-> <<>>]

NoArg == [term |-> <<>>, id |-> Null, content |-> Undef, selected |-> FALSE, node |-> NoNode, name |-> <<>>]

\* ------------------------------------------------------------- tree nodes
\* A node {id, type, children?, content?}. kids records whether the node has
\* a children property (JavaScript tests `node.children` for truthiness, and
\* an empty array is truthy); content is Undef when the property is absent.

File(i, c) == [id |-> i, type |-> "file", kids |-> FALSE, children |-> <<>>, content |-> c]

Folder(i, ch) == [id |-> i, type |-> "folder", kids |-> TRUE, children |-> ch, content |-> Undef]

\* An update that looks at the root nodes only.
updateFileContent_RootsOnly(nodes, fileId, newContent) ==
    [k \in 1..Len(nodes) |->
        IF nodes[k].id = fileId THEN [nodes[k] EXCEPT !.content = newContent] ELSE nodes[k]]

RECURSIVE updateFileContent(_, _, _)
updateFileContent(nodes, fileId, newContent) ==
    [k \in 1..Len(nodes) |->
        LET node == nodes[k] IN
        IF node.id = fileId THEN [node EXCEPT !.content = newContent]
        ELSE IF node.kids
             THEN [node EXCEPT !.children = updateFileContent(node.children, fileId, newContent)]
             ELSE node]

\* A search that tries every sibling before it descends.
RECURSIVE findNodeById_SiblingsFirst(_, _)
findNodeById_SiblingsFirst(nodes, id) ==
    IF \E k \in 1..Len(nodes) : nodes[k].id = id
    THEN [found |-> TRUE, node |-> nodes[CHOOSE k \in 1..Len(nodes) : nodes[k].id = id]]
    ELSE IF nodes = <<>> THEN [found |-> FALSE, node |-> File(Null, Undef)]
    ELSE LET sub == IF Head(nodes).kids THEN findNodeById_SiblingsFirst(Head(nodes).children, id)
                    ELSE [found |-> FALSE, node |-> File(Null, Undef)]
         IN IF sub.found THEN sub ELSE findNodeById_SiblingsFirst(Tail(nodes), id)

\* findNodeById returns the node or null; found says which.
RECURSIVE findNodeById(_, _)
findNodeById(nodes, id) ==
    IF nodes = <<>> THEN [found |-> FALSE, node |-> File(Null, Undef)]
    ELSE LET node == Head(nodes) IN
         IF node.id = id THEN [found |-> TRUE, node |-> node]
         ELSE LET sub == IF node.kids THEN findNodeById(node.children, id)
                         ELSE [found |-> FALSE, node |-> File(Null, Undef)]
              IN IF sub.found THEN sub ELSE findNodeById(Tail(nodes), id)

\* A JavaScript Map as a sequence of <<key, value>> in insertion order:
\* set on a present key replaces the value and keeps the key's position.
MapHas(m, k) == \E j \in 1..Len(m) : m[j][1] = k

MapGet(m, k) == m[CHOOSE j \in 1..Len(m) : m[j][1] = k][2]

MapSet(m, k, v) ==
    IF MapHas(m, k) THEN [j \in 1..Len(m) |-> IF m[j][1] = k THEN <<k, v>> ELSE m[j]]
    ELSE Append(m, <<k, v>>)

MapKeys(m) == [j \in 1..Len(m) |-> m[j][1]]

\* traverseOld of mergeTreeContent: the contents of the loaded file nodes.
RECURSIVE traverseOld(_, _)
traverseOld(nodes, contentMap) ==
    IF nodes = <<>> THEN contentMap
    ELSE LET node == Head(nodes)
             m1 == IF node.type = "file" /\ node.content # Undef
                   THEN MapSet(contentMap, node.id, node.content) ELSE contentMap
             m2 == IF node.kids THEN traverseOld(node.children, m1) ELSE m1
         IN traverseOld(Tail(nodes), m2)

\* applyContent of mergeTreeContent: the new nodes with the contents grafted.
RECURSIVE applyContent(_, _)
applyContent(nodes, contentMap) ==
    [k \in 1..Len(nodes) |->
        LET node == nodes[k]
            newNode == IF MapHas(contentMap, node.id)
                       THEN [node EXCEPT !.content = MapGet(contentMap, node.id)]
                       ELSE node
        IN IF newNode.kids
           THEN [newNode EXCEPT !.children = applyContent(newNode.children, contentMap)]
           ELSE newNode]

\* A merge that collects the contents of the old tree's root nodes only.
mergeTreeContent_RootsOnly(oldNodes, newNodes) ==
    applyContent(newNodes,
                 traverseOld([k \in 1..Len(oldNodes) |-> [oldNodes[k] EXCEPT !.kids = FALSE]], <<>>))

\* A merge with its arguments taken the other way round.
mergeTreeContent_Swapped(oldNodes, newNodes) == applyContent(oldNodes, traverseOld(newNodes, <<>>))

\* A merge that commits the new shape without grafting the contents.
mergeTreeContent_ShapeOnly(oldNodes, newNodes) == newNodes

mergeTreeContent(oldNodes, newNodes) == applyContent(newNodes, traverseOld(oldNodes, <<>>))

\* A flatten that indexes the folders too.
RECURSIVE flattenFiles_AllNodes(_, _)
flattenFiles_AllNodes(nodes, map) ==
    IF nodes = <<>> THEN map
    ELSE LET node == Head(nodes)
             m1 == MapSet(map, node.id, node)
             m2 == IF node.kids THEN flattenFiles_AllNodes(node.children, m1) ELSE m1
         IN flattenFiles_AllNodes(Tail(nodes), m2)

\* flattenFiles: the Map id -> node of the file nodes, in traversal order.
RECURSIVE flattenFiles(_, _)
flattenFiles(nodes, map) ==
    IF nodes = <<>> THEN map
    ELSE LET node == Head(nodes)
             m1 == IF node.type = "file" THEN MapSet(map, node.id, node) ELSE map
             m2 == IF node.kids THEN flattenFiles(node.children, m1) ELSE m1
         IN flattenFiles(Tail(nodes), m2)

\* filterNodes: nodes.reduce over the nodes, in order.
RECURSIVE filterNodes(_, _)
filterNodes(nodes, term) ==
    IF nodes = <<>> THEN <<>>
    ELSE LET node == Head(nodes)
             rest == filterNodes(Tail(nodes), term)
         IN IF node.type = "file" /\ includes(toLowerCase(node.name), toLowerCase(term))
            THEN <<node>> \o rest
            ELSE IF node.type = "folder"
                 THEN LET filteredChildren ==
                              filterNodes(IF node.kids THEN node.children ELSE <<>>, term)
                      IN IF Len(filteredChildren) > 0
                            \/ includes(toLowerCase(node.name), toLowerCase(term))
                         THEN << [node EXCEPT !.kids = TRUE, !.children = filteredChildren,
                                              !.isOpen = TRUE] >> \o rest
                         ELSE rest
                 ELSE rest

\* A caller that filters whatever the term.
displayedFiles_AlwaysFilters(tree, searchTerm) == filterNodes(tree, searchTerm)

\* displayedFiles: the tree the explorer shows for the search term.
displayedFiles(tree, searchTerm) == IF searchTerm # <<>> THEN filterNodes(tree, searchTerm) ELSE tree

\* handleCreateItem: the path POSTed to /files/create for the selection
\* (selectedId is set; node is what findNodeById returned) and newItemName.
basePathOf(selected, node) ==
    IF selected /\ node.found
    THEN IF node.type = "folder" THEN node.id
         ELSE LET isWin == includes(node.id, <<"\\">>)
                  sep == IF isWin THEN "\\" ELSE "/"
              IN substring(node.id, 0, lastIndexOf(node.id, sep))
    ELSE <<>>

fullPathOf(basePath, newItemName) ==
    IF basePath # <<>>
    THEN LET isWin == includes(basePath, <<"\\">>)
             sep == IF isWin THEN "\\" ELSE "/"
         IN basePath \o <<sep>> \o newItemName
    ELSE newItemName

\* --------------------------------------------------------- backend shapes
\* The tree shapes GET /files may answer with (nested nodes, no content).
T1 == << Folder("/a", << File("/a/x", Undef) >>) >>

T2 == << Folder("/a", << File("/a/x", Undef), File("/a/y", Undef) >>) >>

T3 == << Folder("/a", << File("/a/x", Undef), File("/a/y", Undef) >>), File("/z", Undef) >>

\* "/a" was deleted as a folder and created again as a file.
T4 == << File("/z", Undef), File("/a", Undef) >>

\* The shapes the backend moves among while files are edited, and while the
\* refresh protocol is exercised.
EditShapes == {T1, T2}

RefreshShapes == {T1, T3, T4}

TabShapes == {T1, T3}

\* An empty workspace.
T0 == <<>>

ReloadShapes == {T0, T1}

RaceShapes == {T1, T3}

Ids == {"/a", "/a/x", "/a/y", "/z"}

\* ------------------------------------------------------------------ state

\* Nothing acknowledged since the latest edit.
NoAck == [acked |-> FALSE, notified |-> FALSE, refetched |-> <<>>]

NoSave == [id |-> Null, content |-> Undef, ver |-> 0]

\* A chat message {role, text, isStreaming?}; a text is a sequence of
\* tokens, so that text + newText is concatenation. The id (Date.now()) is
\* not modelled. isStreaming is FALSE when the property is absent.
AgentMsg(text, streaming) == [role |-> "agent", text |-> text, isStreaming |-> streaming]

UserMsg(text) == [role |-> "user", text |-> text, isStreaming |-> FALSE]

INITIAL_MESSAGE == <<"hello">>

\* A frame of the live channel, as event.data: text that is not JSON, the
\* JSON null, or a JSON object with its type, event and text properties
\* (Undef when absent; hasText says whether text is present).
Frame(json, type, event, hasText, text) ==
    [json |-> json, type |-> type, event |-> event, hasText |-> hasText, text |-> text]

NoFrame == Frame("none", Undef, Undef, FALSE, <<>>)

Payloads ==
    {Frame("bad", Undef, Undef, FALSE, <<>>), Frame("null", Undef, Undef, FALSE, <<>>)}
    \cup {Frame("object", "system_event", ev, FALSE, <<>>) : ev \in {"file_change", "heartbeat"}}
    \cup {Frame("object", "pong", Undef, TRUE, <<"p">>)}
    \cup {Frame("object", "agent_chunk", Undef, TRUE, <<"c">>), Frame("object", "agent_chunk", Undef, FALSE, <<>>)}
    \cup {Frame("object", "agent_response", Undef, TRUE, <<"r">>), Frame("object", "agent_response", Undef, TRUE, <<>>)}
    \cup {Frame("object", "agent_error", Undef, TRUE, <<"x">>)}

\* What the user submits in the chat box: blanks only, or a question.
Inputs == {<<" ">>, <<"q">>}

VARIABLES
    files,              \* useState([]): the working tree
    openFiles,          \* useState([]): the Open-File Set, a tab per id
    activeFileId,       \* useState(null)
    selectedId,         \* useState(null)
    fileToSave,         \* useState(null): the pending-save slot {id, content}
    fileToSaveRef,      \* useRef(null): the pending marker the channel reads
    debouncedSaveData,  \* useDebounce(fileToSave, 500): the debounced value
    debounceTimer,      \* the hook's timer is running
    saveReqs,           \* POST /files/save requests in flight
    treeReqs,           \* GET /files requests in flight
    contentReqs,        \* GET /files/content requests in flight, per id
    timeouts,           \* pending setTimeout(..., 0) callbacks, in order
    wsState,            \* readyState of wsRef.current
    connected,          \* useState(false): the connectivity flag
    reconnectTimer,     \* setTimeout(connectWs, 3000) is pending
    latest,             \* history: per file, its latest edit (content, ver)
    burst,              \* history: the ids edited since the debounce timer last elapsed
    posted,             \* history: every POST /files/save issued
    acked,              \* history: versions whose POST resolved
    failed,             \* history: versions whose POST rejected
    messages,           \* useState([{id: 1, role: 'agent', text: INITIAL_MESSAGE}])
    isProcessing,       \* useState(false): the processing flag
    received,           \* history: the number of frames onmessage has handled
    lastFrame,          \* history: the last frame onmessage has handled
    wsErrors,           \* history: the number of console.error("WS Error", e) calls
    deleteReqs,         \* POST /files/delete requests in flight, with their closures
    dialogs,            \* history: the alert() and declined confirm() dialogs of delete
    sinceAck,           \* history: the notifications since the latest edit's write was acknowledged
    mounted,            \* the mount effect has run and its cleanup has not
    orphans,            \* live WebSockets that wsRef.current no longer refers to
    backend,            \* the tree of the workspace on disk, where GET /files is served from it
    served,             \* the answers to GET /files the backend has sent, not yet received
    awaited,            \* the backend owes an answer to a chat sent on the current connection
    pTree,              \* helper bench: the tree a helper is applied to
    pShape,             \* helper bench: the new shape given to mergeTreeContent
    pOut,               \* helper bench: the tree the helper returned
    pOp,                \* helper bench: the helper applied, "none" before
    pArg                \* helper bench: the other arguments of the helper

syncVars == <<files, openFiles, activeFileId, selectedId, timeouts, treeReqs, contentReqs>>

saveVars == <<fileToSave, fileToSaveRef, debouncedSaveData, debounceTimer, saveReqs>>

wsVars == <<wsState, connected, reconnectTimer>>

histVars == <<latest, burst, posted, acked, failed>>

pureVars == <<pTree, pShape, pOut, pOp, pArg>>

chatVars == <<messages, isProcessing, received, lastFrame, wsErrors>>

logVars == <<dialogs, sinceAck>>

sessionVars == <<mounted, orphans>>

backendVars == <<backend, served, awaited>>

outerVars == <<sessionVars, backendVars>>

vars == <<syncVars, saveVars, wsVars, histVars, chatVars, deleteReqs, logVars, outerVars, pureVars>>

\* The component right after mount: the mount effect has called connectWs()
\* and fetchFileTree(), and useDebounce has armed its first timer.
InitApp ==
    /\ files = <<>>
    /\ openFiles = <<>>
    /\ activeFileId = Null
    /\ selectedId = Null
    /\ fileToSave = NoSave
    /\ fileToSaveRef = NoSave
    /\ debouncedSaveData = NoSave
    /\ debounceTimer = TRUE
    /\ saveReqs = {}
    /\ treeReqs = 1
    /\ contentReqs = [i \in Ids |-> 0]
    /\ timeouts = <<>>
    /\ wsState = "CONNECTING"
    /\ connected = FALSE
    /\ reconnectTimer = FALSE
    /\ latest = [i \in Ids |-> [content |-> Undef, ver |-> 0]]
    /\ burst = <<>>
    /\ posted = {}
    /\ acked = {}
    /\ failed = {}
    /\ messages = << AgentMsg(INITIAL_MESSAGE, FALSE) >>
    /\ isProcessing = FALSE
    /\ received = 0
    /\ lastFrame = NoFrame
    /\ wsErrors = 0
    /\ deleteReqs = <<>>
    /\ dialogs = <<>>
    /\ sinceAck = NoAck
    /\ mounted = TRUE
    /\ orphans = 0
    /\ backend = T1
    /\ served = <<>>
    /\ awaited = FALSE

Init ==
    /\ InitApp
    /\ pTree = <<>>
    /\ pShape = <<>>
    /\ pOut = <<>>
    /\ pOp = "none"
    /\ pArg = NoArg

\* The number of edits typed so far: the version of the latest of them.
NumEdits == CHOOSE n \in 0..MaxEdits : /\ \A i \in Ids : latest[i].ver <= n
                                      /\ (n = 0 \/ \E i \in Ids : latest[i].ver = n)

\* ---------------------------------------------------------------- helpers

\* The nodes of a tree, at every depth (what the explorer can show).
RECURSIVE NodesOf(_)
NodesOf(nodes) ==
    IF nodes = <<>> THEN {}
    ELSE LET node == Head(nodes) IN
         {node} \cup (IF node.kids THEN NodesOf(node.children) ELSE {}) \cup NodesOf(Tail(nodes))

SeqToSet(s) == {s[k] : k \in 1..Len(s)}

\* fetchFileContent(id), up to its await: one more GET /files/content in flight.
IssueFetch(reqs, id) == [reqs EXCEPT ![id] = @ + 1]

RECURSIVE IssueFetches(_, _)
IssueFetches(reqs, ids) ==
    IF ids = <<>> THEN reqs ELSE IssueFetches(IssueFetch(reqs, Head(ids)), Tail(ids))

\* The file_change branch: the open files to re-fetch, all but editingId
\* (fileToSaveRef.current?.id, undefined when the marker is null).
RECURSIVE RefreshTargets(_, _)
RefreshTargets(filesToRefresh, marker) ==
    IF filesToRefresh = <<>> THEN <<>>
    ELSE LET id == Head(filesToRefresh)
             rest == RefreshTargets(Tail(filesToRefresh), marker)
         IN IF marker = NoSave \/ id # marker.id THEN <<id>> \o rest ELSE rest

\* The diff of fetchFileTree's updater: the ids of the new Map that the old
\* Map lacks and whose node is a file, in the new Map's order.
RECURSIVE NewIdsIn(_, _)
NewIdsIn(newMap, prevMap) ==
    IF newMap = <<>> THEN <<>>
    ELSE LET id == Head(newMap)[1]
             node == Head(newMap)[2]
             rest == NewIdsIn(Tail(newMap), prevMap)
         IN IF ~MapHas(prevMap, id) /\ node.type = "file" THEN <<id>> \o rest ELSE rest

\* A diff taken the other way round: the ids the new tree has lost.
newFileIds_Lost(prevFiles, newTree) == NewIdsIn(flattenFiles(prevFiles, <<>>), flattenFiles(newTree, <<>>))

newFileIds(prevFiles, newTree) == NewIdsIn(flattenFiles(newTree, <<>>), flattenFiles(prevFiles, <<>>))

\* An updater that puts the new ids in front.
PushNew_InFront(updated, ids) == SelectSeq(ids, LAMBDA id : id \notin SeqToSet(updated)) \o updated

\* setOpenFiles's updater in the scheduled callback: push the ids not included.
RECURSIVE PushNew(_, _)
PushNew(updated, ids) ==
    IF ids = <<>> THEN updated
    ELSE PushNew(IF Head(ids) \in SeqToSet(updated) THEN updated ELSE Append(updated, Head(ids)),
                 Tail(ids))

\* The effect on [activeFileId]: a changed, non-null active id is selected.
SelectedAfter(sel, oldActive, newActive) ==
    IF newActive # oldActive /\ newActive # Null THEN newActive ELSE sel

OpenTabs(ids) == [kind |-> "open", ids |-> ids, id |-> Null]

FetchLater(id) == [kind |-> "fetch", ids |-> <<>>, id |-> id]

FetchRoom(reqs) == \A i \in Ids : reqs[i] <= MaxFetch

\* ------------------------------------------------------- the explorer/editor

\* A selection that opens a tab for every node.
OpensTab_AnyNode(node) == TRUE

\* handleNodeSelect opens a tab for a file node only.
OpensTab(node) == node.type = "file"

\* A selection that appends the id whether it is open or not.
TabsAfterSelect_AlwaysAppends(prev, id) == Append(prev, id)

\* The tabs after handleNodeSelect's setOpenFiles, which runs when the id is
\* not included.
TabsAfterSelect(prev, id) == IF id \in SeqToSet(prev) THEN prev ELSE Append(prev, id)

\* handleNodeSelect(node), for a node the explorer shows.
handleNodeSelect(node) ==
    /\ IF OpensTab(node)
       THEN /\ openFiles' = TabsAfterSelect(openFiles, node.id)
            /\ activeFileId' = node.id
            /\ contentReqs' = IssueFetch(contentReqs, node.id)
            /\ FetchRoom(contentReqs')
       ELSE UNCHANGED <<openFiles, activeFileId, contentReqs>>
    /\ selectedId' = node.id
    /\ UNCHANGED <<files, timeouts, treeReqs, saveVars, wsVars, histVars>>
    /\ UNCHANGED <<chatVars, deleteReqs, logVars, outerVars, pureVars>>

\* A slot that keeps the content of the pair it held.
SlotAfterEdit_KeepsContent(slot, fileId, newContent, ver) ==
    [id |-> fileId, content |-> IF slot = NoSave THEN newContent ELSE slot.content, ver |-> ver]

\* A slot that keeps the pending pair of another file.
SlotAfterEdit_KeepsOtherFile(slot, fileId, newContent, ver) ==
    IF slot # NoSave /\ slot.id # fileId THEN slot
    ELSE [id |-> fileId, content |-> newContent, ver |-> ver]

\* The pending-save slot after an edit: the pair is replaced wholesale.
SlotAfterEdit(slot, fileId, newContent, ver) == [id |-> fileId, content |-> newContent, ver |-> ver]

\* handleFileContentChange(fileId, newContent), called by the editor with the
\* id of the active file's node; then the effect on [fileToSave] mirrors the
\* slot into fileToSaveRef and useDebounce restarts its timer.
handleFileContentChange(fileId, newContent) ==
    /\ NumEdits < MaxEdits
    /\ files' = updateFileContent(files, fileId, newContent)
    /\ LET ver == NumEdits + 1 IN
       /\ fileToSave' = SlotAfterEdit(fileToSave, fileId, newContent, ver)
       /\ latest' = [latest EXCEPT ![fileId] = [content |-> newContent, ver |-> ver]]
    /\ fileToSaveRef' = fileToSave'
    /\ debounceTimer' = TRUE
    /\ burst' = Append(burst, fileId)
    /\ sinceAck' = NoAck
    /\ UNCHANGED <<openFiles, activeFileId, selectedId, timeouts, treeReqs, contentReqs>>
    /\ UNCHANGED <<debouncedSaveData, saveReqs, wsVars, posted, acked, failed>>
    /\ UNCHANGED <<chatVars, deleteReqs, dialogs, outerVars, pureVars>>

\* The editor's textarea changes: the active file's node exists in the tree.
EditorChange ==
    \E c \in Typed :
        /\ activeFileId # Null
        /\ findNodeById(files, activeFileId).found
        /\ handleFileContentChange(findNodeById(files, activeFileId).node.id, c)

\* ------------------------------------------------------ debounced write-back

\* The save effect on [debouncedSaveData]: the POST it issues, if any.
SaveEffect(data) == IF data # NoSave THEN {data} ELSE {}

\* useDebounce's timer elapses: the debounced value becomes the slot's value,
\* and when that changes it the save effect runs.
DebounceElapse ==
    /\ debounceTimer
    /\ debounceTimer' = FALSE
    /\ debouncedSaveData' = fileToSave
    /\ burst' = <<>>
    /\ LET issued == IF fileToSave # debouncedSaveData THEN SaveEffect(fileToSave) ELSE {}
       IN /\ saveReqs' = saveReqs \cup issued
          /\ posted' = posted \cup issued
    /\ UNCHANGED <<syncVars, fileToSave, fileToSaveRef, wsVars, latest, acked, failed>>
    /\ UNCHANGED <<chatVars, deleteReqs, logVars, outerVars, pureVars>>

\* A marker that no acknowledgment clears.
MarkerAfterSave_NeverCleared(marker, req, ok) == marker

\* The marker after the POST's promise settles: .then clears it, .catch logs.
MarkerAfterSave(marker, req, ok) == IF ok THEN NoSave ELSE marker

\* POST /files/save resolves (.then).
SaveResolve(req) ==
    /\ req \in saveReqs
    /\ saveReqs' = saveReqs \ {req}
    /\ fileToSaveRef' = MarkerAfterSave(fileToSaveRef, req, TRUE)
    /\ acked' = acked \cup {req.ver}
    /\ sinceAck' = IF req.ver = NumEdits THEN [NoAck EXCEPT !.acked = TRUE] ELSE sinceAck
    /\ UNCHANGED <<syncVars, fileToSave, debouncedSaveData, debounceTimer, wsVars>>
    /\ UNCHANGED <<latest, burst, posted, failed>>
    /\ UNCHANGED <<chatVars, deleteReqs, dialogs, outerVars, pureVars>>

\* POST /files/save rejects (.catch): console.error, nothing else.
SaveReject(req) ==
    /\ req \in saveReqs
    /\ saveReqs' = saveReqs \ {req}
    /\ fileToSaveRef' = MarkerAfterSave(fileToSaveRef, req, FALSE)
    /\ failed' = failed \cup {req.ver}
    /\ UNCHANGED <<syncVars, fileToSave, debouncedSaveData, debounceTimer, wsVars>>
    /\ UNCHANGED <<latest, burst, posted, acked>>
    /\ UNCHANGED <<chatVars, deleteReqs, logVars, outerVars, pureVars>>

\* ------------------------------------------------------------ live channel

\* onopen of the current WebSocket.
WsOpen ==
    /\ wsState = "CONNECTING"
    /\ wsState' = "OPEN"
    /\ connected' = TRUE
    /\ UNCHANGED <<syncVars, saveVars, reconnectTimer, histVars>>
    /\ UNCHANGED <<chatVars, deleteReqs, logVars, outerVars, pureVars>>

\* An onclose that retries only a connection that had opened.
AfterClose_OnlyAfterOpen(state) == [connected |-> FALSE, timer |-> state = "OPEN"]

\* An onclose that does not clear the flag.
AfterClose_KeepsFlag(state) == [connected |-> state = "OPEN", timer |-> TRUE]

\* What onclose leaves: the flag cleared and setTimeout(connectWs, 3000)
\* pending, whether the socket had opened or not.
AfterClose(state) == [connected |-> FALSE, timer |-> TRUE]

\* onclose of the current WebSocket: the connection failed or was closed.
WsClose ==
    /\ wsState \in {"CONNECTING", "OPEN"}
    /\ wsState' = "CLOSED"
    /\ connected' = AfterClose(wsState).connected
    /\ reconnectTimer' = (reconnectTimer \/ AfterClose(wsState).timer)
    /\ awaited' = FALSE
    /\ UNCHANGED <<syncVars, saveVars, histVars>>
    /\ UNCHANGED <<chatVars, deleteReqs, logVars, sessionVars, backend, served, pureVars>>

\* A variant that counts the socket wsRef.current held as live even when closed.
OrphansAfterConnect_Always(state, n) == n + 1

\* wsRef.current = new WebSocket(WS_URL): a socket that wsRef.current held
\* and that is not closed stays live, with its handlers, unreferenced.
OrphansAfterConnect(state, n) == IF state \in {"CONNECTING", "OPEN"} THEN n + 1 ELSE n

\* The 3-second timer elapses: connectWs() makes a new WebSocket.
connectWs ==
    /\ reconnectTimer
    /\ reconnectTimer' = FALSE
    /\ wsState' = "CONNECTING"
    /\ orphans' = OrphansAfterConnect(wsState, orphans)
    /\ orphans' <= MaxOrphans
    /\ UNCHANGED <<syncVars, saveVars, connected, histVars>>
    /\ UNCHANGED <<chatVars, deleteReqs, logVars, mounted, backendVars, pureVars>>

\* The cleanup of the mount effect: wsRef.current?.close(); the socket's
\* onclose runs as for any close (it is not detached, and no timer is cleared).
Unmount ==
    /\ mounted
    /\ mounted' = FALSE
    /\ IF wsState \in {"CONNECTING", "OPEN"}
       THEN /\ wsState' = "CLOSED"
            /\ connected' = AfterClose(wsState).connected
            /\ reconnectTimer' = (reconnectTimer \/ AfterClose(wsState).timer)
       ELSE UNCHANGED <<wsState, connected, reconnectTimer>>
    /\ awaited' = FALSE
    /\ UNCHANGED <<syncVars, saveVars, histVars>>
    /\ UNCHANGED <<chatVars, deleteReqs, logVars, orphans, backend, served, pureVars>>

\* The client restarts in the page: the mount effect runs again, calling
\* connectWs() and fetchFileTree(); pending timers are as they were.
Remount ==
    /\ ~mounted
    /\ mounted' = TRUE
    /\ wsState' = "CONNECTING"
    /\ orphans' = OrphansAfterConnect(wsState, orphans)
    /\ orphans' <= MaxOrphans
    /\ treeReqs < MaxTreeReqs
    /\ treeReqs' = treeReqs + 1
    /\ UNCHANGED <<files, openFiles, activeFileId, selectedId, timeouts, contentReqs>>
    /\ UNCHANGED <<saveVars, connected, reconnectTimer, histVars>>
    /\ UNCHANGED <<chatVars, deleteReqs, logVars, backendVars, pureVars>>

\* onclose of a socket that wsRef.current no longer refers to: the same
\* handler, so the flag is cleared and another connectWs is scheduled.
OrphanClose ==
    /\ orphans > 0
    /\ ~reconnectTimer
    /\ orphans' = orphans - 1
    /\ connected' = AfterClose("OPEN").connected
    /\ reconnectTimer' = AfterClose("OPEN").timer
    /\ UNCHANGED <<syncVars, saveVars, wsState, histVars>>
    /\ UNCHANGED <<chatVars, deleteReqs, logVars, mounted, backendVars, pureVars>>

\* onmessage with {type: "system_event", event: "file_change"}:
\* fetchFileTree(), then fetchFileContent for the open files but editingId.
FileChangeBranch ==
    /\ treeReqs < MaxTreeReqs
    /\ treeReqs' = treeReqs + 1
    /\ contentReqs' = IssueFetches(contentReqs, RefreshTargets(openFiles, fileToSaveRef))
    /\ FetchRoom(contentReqs')
    /\ sinceAck' = IF sinceAck.acked /\ ~sinceAck.notified
                   THEN [sinceAck EXCEPT !.notified = TRUE,
                                         !.refetched = RefreshTargets(openFiles, fileToSaveRef)]
                   ELSE sinceAck

OnFileChange ==
    /\ wsState = "OPEN"
    /\ FileChangeBranch
    /\ UNCHANGED <<files, openFiles, activeFileId, selectedId, timeouts>>
    /\ UNCHANGED <<saveVars, wsVars, histVars>>
    /\ UNCHANGED <<chatVars, deleteReqs, dialogs, outerVars, pureVars>>

\* The workspace on disk changes shape; the backend broadcasts file_change,
\* which the open channel delivers.
BackendChange(shape) ==
    /\ wsState = "OPEN"
    /\ shape # backend
    /\ backend' = shape
    /\ FileChangeBranch
    /\ UNCHANGED <<files, openFiles, activeFileId, selectedId, timeouts>>
    /\ UNCHANGED <<saveVars, wsVars, histVars>>
    /\ UNCHANGED <<chatVars, deleteReqs, dialogs, sessionVars, served, awaited, pureVars>>

\* The backend answers one GET /files with the tree it holds; the answer is
\* on its way, and answers on different connections may overtake each other.
Serve ==
    /\ Len(served) < treeReqs
    /\ served' = Append(served, backend)
    /\ UNCHANGED <<syncVars, saveVars, wsVars, histVars>>
    /\ UNCHANGED <<chatVars, deleteReqs, logVars, sessionVars, backend, awaited, pureVars>>

\* ------------------------------------------------------------ tree refresh

\* What fetchFileTree's setFiles updater schedules with setTimeout(..., 0).
Scheduled(prevFiles, newTree, activeId, marker) ==
    IF Len(prevFiles) > 0
    THEN LET ids == newFileIds(prevFiles, newTree) IN
         IF Len(ids) > 0 THEN << OpenTabs(ids) >> ELSE <<>>
    ELSE IF activeId # Null /\ marker = NoSave /\ MapHas(flattenFiles(newTree, <<>>), activeId)
         THEN << FetchLater(activeId) >>
         ELSE <<>>

\* A fetch that takes an {error} payload for a tree.
TreeCommitted_ErrorIsTree(prevFiles, outcome, newTree) ==
    IF outcome \in {"tree", "error"} THEN mergeTreeContent(prevFiles, newTree) ELSE prevFiles

\* The tree fetchFileTree leaves for the outcome of GET /files: a tree, an
\* {error} payload (newTree.error is truthy) or an exception, which is caught.
TreeCommitted(prevFiles, outcome, newTree) ==
    IF outcome = "tree" THEN mergeTreeContent(prevFiles, newTree) ELSE prevFiles

\* The answers in flight once the answer newTree has been received.
WithoutAnswer(answers, newTree) ==
    IF \E k \in 1..Len(answers) : answers[k] = newTree
    THEN LET k == CHOOSE j \in 1..Len(answers) : answers[j] = newTree
         IN SubSeq(answers, 1, k - 1) \o SubSeq(answers, k + 1, Len(answers))
    ELSE answers

\* GET /files answers a tree: the updater diffs, schedules and merges.
fetchFileTree(newTree) ==
    /\ treeReqs > 0
    /\ treeReqs' = treeReqs - 1
    /\ timeouts' = timeouts \o Scheduled(files, newTree, activeFileId, fileToSaveRef)
    /\ Len(timeouts') <= MaxTimeouts
    /\ files' = TreeCommitted(files, "tree", newTree)
    /\ served' = WithoutAnswer(served, newTree)
    /\ UNCHANGED <<openFiles, activeFileId, selectedId, contentReqs, saveVars, wsVars, histVars>>
    /\ UNCHANGED <<chatVars, deleteReqs, logVars, sessionVars, backend, awaited, pureVars>>

\* GET /files throws, or answers {error}: nothing is set.
fetchFileTreeFails ==
    /\ treeReqs > 0
    /\ treeReqs' = treeReqs - 1
    /\ \E outcome \in {"error", "throws"} : files' = TreeCommitted(files, outcome, <<>>)
    /\ UNCHANGED <<openFiles, activeFileId, selectedId, timeouts, contentReqs>>
    /\ UNCHANGED <<saveVars, wsVars, histVars>>
    /\ UNCHANGED <<chatVars, deleteReqs, logVars, outerVars, pureVars>>

\* A callback that pushes every new id, included or not.
TabsAfterOpen_PushesAll(prev, ids) == prev \o ids

\* The tabs after the scheduled callback's setOpenFiles.
TabsAfterOpen(prev, ids) == PushNew(prev, ids)

\* A scheduled callback runs: open the new files as tabs, activate the last
\* and fetch its content; or fetch the active file's content (first load).
RunTimeout ==
    /\ timeouts # <<>>
    /\ timeouts' = Tail(timeouts)
    /\ LET t == Head(timeouts) IN
       IF t.kind = "open"
       THEN LET lastNewId == t.ids[Len(t.ids)] IN
            /\ openFiles' = TabsAfterOpen(openFiles, t.ids)
            /\ activeFileId' = lastNewId
            /\ selectedId' = SelectedAfter(selectedId, activeFileId, lastNewId)
            /\ contentReqs' = IssueFetch(contentReqs, lastNewId)
       ELSE /\ contentReqs' = IssueFetch(contentReqs, t.id)
            /\ UNCHANGED <<openFiles, activeFileId, selectedId>>
    /\ FetchRoom(contentReqs')
    /\ UNCHANGED <<files, treeReqs, saveVars, wsVars, histVars>>
    /\ UNCHANGED <<chatVars, deleteReqs, logVars, outerVars, pureVars>>

\* The tree after fetchFileContent's setFiles updater (updateNodeContent).
ContentApplied(prevFiles, fileId, content) == updateFileContent(prevFiles, fileId, content)

\* GET /files/content answers {content}.
fetchFileContent(fileId, content) ==
    /\ contentReqs[fileId] > 0
    /\ contentReqs' = [contentReqs EXCEPT ![fileId] = @ - 1]
    /\ files' = ContentApplied(files, fileId, content)
    /\ UNCHANGED <<openFiles, activeFileId, selectedId, timeouts, treeReqs>>
    /\ UNCHANGED <<saveVars, wsVars, histVars>>
    /\ UNCHANGED <<chatVars, deleteReqs, logVars, outerVars, pureVars>>

\* GET /files/content throws, or answers without a content field.
fetchFileContentFails(fileId) ==
    /\ contentReqs[fileId] > 0
    /\ contentReqs' = [contentReqs EXCEPT ![fileId] = @ - 1]
    /\ UNCHANGED <<files, openFiles, activeFileId, selectedId, timeouts, treeReqs>>
    /\ UNCHANGED <<saveVars, wsVars, histVars>>
    /\ UNCHANGED <<chatVars, deleteReqs, logVars, outerVars, pureVars>>

\* ------------------------------------------------------------ tabs, delete

\* prev.filter(id => id !== fileId)
Without(prev, fileId) == SelectSeq(prev, LAMBDA id : id # fileId)

\* The tabs the editor panel renders: the open ids whose node the tree has.
TabsShown == {id \in SeqToSet(openFiles) : findNodeById(files, id).found}

\* A click on a tab: setActiveFileId(fileId).
ClickTab(fileId) ==
    /\ activeFileId' = fileId
    /\ selectedId' = SelectedAfter(selectedId, activeFileId, fileId)
    /\ UNCHANGED <<files, openFiles, timeouts, treeReqs, contentReqs>>
    /\ UNCHANGED <<saveVars, wsVars, histVars, chatVars, deleteReqs, logVars, outerVars, pureVars>>

\* A close that leaves the active id as it is.
ActiveAfterClose_Keeps(active, fileId, newOpenFiles) == active

\* A close that activates the first of the remaining tabs.
ActiveAfterClose_First(active, fileId, newOpenFiles) ==
    IF active = fileId
    THEN IF Len(newOpenFiles) > 0 THEN newOpenFiles[1] ELSE Null
    ELSE active

\* The active id after handleCloseFile: the last of the remaining tabs, or
\* null, when the closed file was active.
ActiveAfterClose(active, fileId, newOpenFiles) ==
    IF active = fileId
    THEN IF Len(newOpenFiles) > 0 THEN newOpenFiles[Len(newOpenFiles)] ELSE Null
    ELSE active

\* handleCloseFile(e, fileId): a click on the x of a tab.
handleCloseFile(fileId) ==
    LET newOpenFiles == Without(openFiles, fileId) IN
    /\ openFiles' = newOpenFiles
    /\ activeFileId' = ActiveAfterClose(activeFileId, fileId, newOpenFiles)
    /\ selectedId' = SelectedAfter(selectedId, activeFileId, activeFileId')
    /\ UNCHANGED <<files, timeouts, treeReqs, contentReqs>>
    /\ UNCHANGED <<saveVars, wsVars, histVars, chatVars, deleteReqs, logVars, outerVars, pureVars>>

\* What handleDeleteItem's continuation reads after its await, from the
\* values of the render in which the handler was called: selectedId,
\* openFiles.includes(selectedId) and activeFileId === selectedId.
DeleteClosure ==
    [selectedId |-> selectedId,
     includes |-> selectedId \in SeqToSet(openFiles),
     isActive |-> activeFileId = selectedId]

\* A delete that is sent whatever confirm() returned.
DeleteSent_Unconfirmed(selected, confirmed) == selected # Null

\* POST /files/delete is sent: something is selected and confirm() returned
\* true (with nothing selected confirm() is not shown).
DeleteSent(selected, confirmed) == selected # Null /\ confirmed

\* handleDeleteItem(), up to its await: nothing selected alerts and returns,
\* a confirm() the user declines returns, else POST /files/delete is sent.
handleDeleteItem(confirmed) ==
    /\ Len(deleteReqs) < MaxDeletes
    /\ deleteReqs' = IF DeleteSent(selectedId, confirmed) THEN Append(deleteReqs, DeleteClosure)
                     ELSE deleteReqs
    /\ dialogs' = IF selectedId = Null THEN Append(dialogs, "alert")
                  ELSE IF ~confirmed THEN Append(dialogs, "declined")
                  ELSE dialogs
    /\ Len(dialogs') <= MaxDialogs
    /\ UNCHANGED <<syncVars, saveVars, wsVars, histVars, chatVars, sinceAck, outerVars, pureVars>>

RemoveAt(s, k) == SubSeq(s, 1, k - 1) \o SubSeq(s, k + 1, Len(s))

\* POST /files/delete answers: the continuation of handleDeleteItem.
DeleteConfirmed(k) ==
    LET c == deleteReqs[k] IN
    /\ deleteReqs' = RemoveAt(deleteReqs, k)
    /\ IF c.includes
       THEN /\ openFiles' = Without(openFiles, c.selectedId)
            /\ activeFileId' = IF c.isActive THEN Null ELSE activeFileId
       ELSE UNCHANGED <<openFiles, activeFileId>>
    /\ selectedId' = Null
    /\ UNCHANGED <<files, timeouts, treeReqs, contentReqs>>
    /\ UNCHANGED <<saveVars, wsVars, histVars, chatVars, logVars, outerVars, pureVars>>

\* POST /files/delete throws: console.error, nothing else.
DeleteFails(k) ==
    /\ deleteReqs' = RemoveAt(deleteReqs, k)
    /\ UNCHANGED <<syncVars, saveVars, wsVars, histVars, chatVars, logVars, outerVars, pureVars>>

\* ------------------------------------------------------------------- chat

\* JSON.parse(event.data): throws on text that is not JSON.
JSONparse(raw) == [ok |-> raw.json # "bad", isNull |-> raw.json = "null", data |-> raw]

\* String(data.text || ''): an absent or empty text gives the empty string.
TextOf(data) == IF data.hasText /\ data.text # <<>> THEN data.text ELSE <<>>

\* A dispatch that handles a failure to parse as an agent_error.
onmessageBranch_FailureIsError(raw) ==
    LET parsed == JSONparse(raw) IN
    IF ~parsed.ok \/ parsed.isNull THEN "final"
    ELSE IF parsed.data.type = "system_event" /\ parsed.data.event = "file_change" THEN "file_change"
    ELSE IF parsed.data.type \in {"agent_response", "agent_chunk", "agent_error"}
         THEN IF parsed.data.type = "agent_chunk" THEN "chunk" ELSE "final"
    ELSE "ignored"

\* A dispatch whose last branch does not test the type.
onmessageBranch_NoTypeTest(raw) ==
    LET parsed == JSONparse(raw) IN
    IF ~parsed.ok \/ parsed.isNull THEN "caught"
    ELSE IF parsed.data.type = "system_event" /\ parsed.data.event = "file_change" THEN "file_change"
    ELSE IF parsed.data.type = "agent_chunk" THEN "chunk" ELSE "final"

\* The branch onmessage takes: JSON.parse throws, or data.type throws on
\* null, and the catch logs; else the if / else if on data.type.
onmessageBranch(raw) ==
    LET parsed == JSONparse(raw) IN
    IF ~parsed.ok \/ parsed.isNull THEN "caught"
    ELSE IF parsed.data.type = "system_event" /\ parsed.data.event = "file_change" THEN "file_change"
    ELSE IF parsed.data.type \in {"agent_response", "agent_chunk", "agent_error"}
         THEN IF parsed.data.type = "agent_chunk" THEN "chunk" ELSE "final"
    ELSE "ignored"

\* A chunk that always starts a new message.
ChunkApplied_AlwaysAppends(prev, newText) == Append(prev, AgentMsg(newText, TRUE))

\* setMessages's updater of the agent_chunk branch.
ChunkApplied(prev, newText) ==
    LET lastMsg == prev[Len(prev)] IN
    IF lastMsg.role = "agent" /\ lastMsg.isStreaming
    THEN SubSeq(prev, 1, Len(prev) - 1) \o << [lastMsg EXCEPT !.text = lastMsg.text \o newText] >>
    ELSE Append(prev, AgentMsg(newText, TRUE))

\* A full message that is appended as an in-progress one.
FinalApplied_Streaming(prev, text) == Append(prev, AgentMsg(text, TRUE))

\* setMessages's updater of the agent_response / agent_error branch.
FinalApplied(prev, text) == Append(prev, AgentMsg(text, FALSE))

\* onmessage of the current WebSocket, for the frame raw.
OnMessage(raw) ==
    /\ wsState = "OPEN"
    /\ received < MaxFrames
    /\ received' = received + 1
    /\ lastFrame' = raw
    /\ LET branch == onmessageBranch(raw) IN
       /\ wsErrors' = IF branch = "caught" THEN wsErrors + 1 ELSE wsErrors
       /\ IF branch = "file_change" THEN FileChangeBranch ELSE UNCHANGED <<treeReqs, contentReqs, sinceAck>>
       /\ messages' = IF branch = "chunk" THEN ChunkApplied(messages, TextOf(JSONparse(raw).data))
                      ELSE IF branch = "final" THEN FinalApplied(messages, TextOf(JSONparse(raw).data))
                      ELSE messages
       /\ isProcessing' = IF branch = "final" THEN FALSE ELSE isProcessing
       /\ awaited' = IF branch = "final" THEN FALSE ELSE awaited
    /\ Len(messages') <= MaxMessages
    /\ UNCHANGED <<files, openFiles, activeFileId, selectedId, timeouts>>
    /\ UNCHANGED <<saveVars, wsVars, histVars, deleteReqs, dialogs, sessionVars, backend, served, pureVars>>

\* inputText.trim() is empty.
IsBlank(text) == \A k \in 1..Len(text) : text[k] = " "

\* handleChatSubmit(e) with inputText in the chat box.
handleChatSubmit(inputText) ==
    /\ IF IsBlank(inputText) THEN UNCHANGED <<messages, isProcessing>>
       ELSE IF wsState = "OPEN"
            THEN /\ messages' = Append(messages, UserMsg(inputText))
                 /\ isProcessing' = TRUE
            ELSE /\ messages' = messages \o << UserMsg(inputText),
                                               AgentMsg(<<"Error: WebSocket not connected.">>, FALSE) >>
                 /\ isProcessing' = FALSE
    /\ awaited' = IF ~IsBlank(inputText) /\ wsState = "OPEN" THEN TRUE ELSE awaited
    /\ Len(messages') <= MaxMessages
    /\ UNCHANGED <<syncVars, saveVars, wsVars, histVars, received, lastFrame, wsErrors>>
    /\ UNCHANGED <<deleteReqs, logVars, sessionVars, backend, served, pureVars>>

\* handleStopResponse(e): the stop button.
handleStopResponse ==
    /\ IF wsState = "OPEN"
       THEN /\ isProcessing' = FALSE
            /\ messages' = Append(messages, AgentMsg(<<"Stopping...">>, FALSE))
       ELSE UNCHANGED <<messages, isProcessing>>
    /\ awaited' = IF wsState = "OPEN" THEN FALSE ELSE awaited
    /\ Len(messages') <= MaxMessages
    /\ UNCHANGED <<syncVars, saveVars, wsVars, histVars, received, lastFrame, wsErrors>>
    /\ UNCHANGED <<deleteReqs, logVars, sessionVars, backend, served, pureVars>>

\* ---------------------------------------------------------- specifications

\* The write-back controller against the live channel's content refresh: the
\* backend's tree is T1 or T2, the channel stays open once it has opened.
EditNext ==
    \/ \E node \in NodesOf(files) : handleNodeSelect(node)
    \/ EditorChange
    \/ DebounceElapse
    \/ \E req \in saveReqs : SaveResolve(req)
    \/ \E req \in saveReqs : SaveReject(req)
    \/ WsOpen
    \/ OnFileChange
    \/ \E newTree \in EditShapes : fetchFileTree(newTree)
    \/ RunTimeout
    \/ \E fileId \in Ids, content \in Served : fetchFileContent(fileId, content)
    \/ \E fileId \in Ids : fetchFileContentFails(fileId)

EditSpec == Init /\ [][EditNext]_vars

\* The live channel by itself: connection, reconnection and the dispatch of
\* file_change, against a backend whose tree is T2. The browser runs every
\* pending timer, so the reconnect timer is weakly fair.
ChannelNext ==
    \/ WsOpen
    \/ WsClose
    \/ connectWs
    \/ OnFileChange
    \/ \E node \in NodesOf(files) : handleNodeSelect(node)
    \/ fetchFileTree(T2)
    \/ fetchFileTreeFails
    \/ \E fileId \in Ids, content \in Served : fetchFileContent(fileId, content)
    \/ \E fileId \in Ids : fetchFileContentFails(fileId)

ChannelSpec == Init /\ [][ChannelNext]_vars /\ WF_vars(connectWs)

\* The refresh protocol: the backend's tree changes among all the shapes,
\* nothing is edited.
RefreshNext ==
    \/ \E node \in NodesOf(files) : handleNodeSelect(node)
    \/ WsOpen
    \/ OnFileChange
    \/ \E newTree \in RefreshShapes : fetchFileTree(newTree)
    \/ fetchFileTreeFails
    \/ RunTimeout
    \/ \E fileId \in Ids, content \in Served : fetchFileContent(fileId, content)
    \/ \E fileId \in Ids : fetchFileContentFails(fileId)

RefreshSpec == Init /\ [][RefreshNext]_vars

\* The first-load branch of the refresh: the backend's workspace is empty
\* (T0) or holds T1, while a file is open, edited and written back.
ReloadNext ==
    \/ \E node \in NodesOf(files) : handleNodeSelect(node)
    \/ EditorChange
    \/ DebounceElapse
    \/ \E req \in saveReqs : SaveResolve(req)
    \/ \E req \in saveReqs : SaveReject(req)
    \/ WsOpen
    \/ OnFileChange
    \/ \E newTree \in ReloadShapes : fetchFileTree(newTree)
    \/ RunTimeout
    \/ \E fileId \in Ids, content \in Served : fetchFileContent(fileId, content)
    \/ \E fileId \in Ids : fetchFileContentFails(fileId)

ReloadSpec == Init /\ [][ReloadNext]_vars

\* The session: the mount effect, its cleanup and its restart, with the
\* sockets and the reconnect timer they leave behind; the backend's tree is T1.
SessionNext ==
    \/ WsOpen
    \/ WsClose
    \/ connectWs
    \/ Unmount
    \/ Remount
    \/ OrphanClose
    \/ OnFileChange
    \/ fetchFileTree(T1)
    \/ fetchFileTreeFails

SessionSpec == Init /\ [][SessionNext]_vars

\* Refreshes racing: the workspace moves between T1 and T3, every change is
\* notified, every GET /files is answered with the tree of the moment, and
\* the answers arrive in any order.
RaceNext ==
    \/ WsOpen
    \/ \E shape \in RaceShapes : BackendChange(shape)
    \/ OnFileChange
    \/ Serve
    \/ \E k \in 1..Len(served) : fetchFileTree(served[k])
    \/ RunTimeout
    \/ \E node \in NodesOf(files) : handleNodeSelect(node)
    \/ \E fileId \in Ids, content \in Served : fetchFileContent(fileId, content)
    \/ \E fileId \in Ids : fetchFileContentFails(fileId)

RaceSpec == Init /\ [][RaceNext]_vars

\* The explorer and the editor's tabs: selection, tab clicks, closes and
\* deletes, while the backend's tree moves between T1 and T3.
TabsNext ==
    \/ \E node \in NodesOf(files) : handleNodeSelect(node)
    \/ \E fileId \in TabsShown : ClickTab(fileId)
    \/ \E fileId \in TabsShown : handleCloseFile(fileId)
    \/ \E confirmed \in BOOLEAN : handleDeleteItem(confirmed)
    \/ \E k \in 1..Len(deleteReqs) : DeleteConfirmed(k)
    \/ \E k \in 1..Len(deleteReqs) : DeleteFails(k)
    \/ WsOpen
    \/ OnFileChange
    \/ \E newTree \in TabShapes : fetchFileTree(newTree)
    \/ RunTimeout
    \/ \E fileId \in Ids : fetchFileContentFails(fileId)

TabsSpec == Init /\ [][TabsNext]_vars

\* The chat over the live channel: every frame of Payloads may arrive while
\* the channel is open, the user submits and stops, the channel closes and
\* reconnects; the backend's tree is T1.
ChatNext ==
    \/ WsOpen
    \/ WsClose
    \/ connectWs
    \/ \E raw \in Payloads : OnMessage(raw)
    \/ \E inputText \in Inputs : handleChatSubmit(inputText)
    \/ handleStopResponse
    \/ \E node \in NodesOf(files) : handleNodeSelect(node)
    \/ fetchFileTree(T1)
    \/ \E fileId \in Ids : fetchFileContentFails(fileId)

ChatSpec == Init /\ [][ChatNext]_vars

\* The chat with what the browser and the backend guarantee: the reconnect
\* timer runs, the new socket opens, and the backend answers a chat it was
\* sent as long as the connection it came on is open. What the user does
\* (submitting, stopping) is not guaranteed to happen.
FinalFrames == {raw \in Payloads : onmessageBranch(raw) = "final"}

Answer == awaited /\ \E raw \in FinalFrames : OnMessage(raw)

\* While an answer is awaited, the bounds on frames and messages leave room
\* for it, so that no bound ever keeps the answer from arriving.
AnswerHasRoom == awaited => (received < MaxFrames /\ Len(messages) < MaxMessages)

ChatLiveNext ==
    \/ WsOpen
    \/ WsClose
    \/ connectWs
    \/ \E raw \in Payloads : OnMessage(raw) /\ AnswerHasRoom'
    \/ \E inputText \in Inputs : handleChatSubmit(inputText) /\ AnswerHasRoom'
    \/ handleStopResponse

ChatLiveSpec ==
    /\ Init /\ [][ChatLiveNext]_vars
    /\ WF_vars(connectWs) /\ WF_vars(WsOpen) /\ WF_vars(Answer)

\* ------------------------------------------------------------ helper bench
\* The tree helpers applied to every tree of a bounded universe: "/a" a file
\* or a folder of "/a/x" and "/a/d" ("/a/d" a file or a folder of "/a/d/w"),
\* "/z" a file or an empty folder, in every order, ids unique.

DNodes == {File("/a/d", Undef), Folder("/a/d", <<>>), Folder("/a/d", << File("/a/d/w", Undef) >>)}

AKids == {<<>>, << File("/a/x", Undef) >>}
         \cup {<<d>> : d \in DNodes}
         \cup {<< File("/a/x", Undef), d >> : d \in DNodes}
         \cup {<< d, File("/a/x", Undef) >> : d \in DNodes}

ANodes == {File("/a", Undef)} \cup {Folder("/a", ks) : ks \in AKids}

ZNodes == {File("/z", Undef), Folder("/z", <<>>)}

ShapeUniverse ==
    {<<>>} \cup {<<a>> : a \in ANodes} \cup {<<z>> : z \in ZNodes}
    \cup {<<a, z>> : a \in ANodes, z \in ZNodes} \cup {<<z, a>> : a \in ANodes, z \in ZNodes}

PureIds == {"/a", "/a/x", "/a/d", "/a/d/w", "/z"}

Loaded == {Undef, "e1", "s1"}

\* A shape with its file nodes loaded as load says (a content or Undef per id).
RECURSIVE WithContents(_, _)
WithContents(nodes, load) ==
    [k \in 1..Len(nodes) |->
        LET node == nodes[k] IN
        IF node.type = "file" THEN [node EXCEPT !.content = load[node.id]]
        ELSE [node EXCEPT !.children = WithContents(node.children, load)]]

TreeUniverse == {WithContents(sh, load) : sh \in ShapeUniverse, load \in [PureIds -> Loaded]}

PureInit ==
    /\ InitApp
    /\ pTree \in TreeUniverse
    /\ pShape \in ShapeUniverse
    /\ pOut = <<>>
    /\ pOp = "none"
    /\ pArg = NoArg

\* mergeTreeContent(pTree, pShape).
ApplyMerge ==
    /\ pOp = "none"
    /\ pOut' = mergeTreeContent(pTree, pShape)
    /\ pOp' = "merge"
    /\ UNCHANGED <<pTree, pShape, pArg, syncVars, saveVars, wsVars, histVars, chatVars, deleteReqs, logVars, outerVars>>

PureNext == ApplyMerge

PureSpec == PureInit /\ [][PureNext]_vars

\* A second refresh that reports the same shape: the merged tree is the
\* working tree now, and mergeTreeContent(pTree, pShape) is applied again.
ApplyMergeAgain ==
    /\ pOp = "merge"
    /\ pTree' = pOut
    /\ pOut' = mergeTreeContent(pOut, pShape)
    /\ pOp' = "remerge"
    /\ UNCHANGED <<pShape, pArg, syncVars, saveVars, wsVars, histVars, chatVars, deleteReqs, logVars, outerVars>>

RemergeNext == ApplyMerge \/ ApplyMergeAgain

RemergeSpec == PureInit /\ [][RemergeNext]_vars

\* The helpers of one tree, applied to named trees: "/a" (name "a", open or
\* not) holds "/a/x" (name "xj"), "/a/y" (name "Xy") and "/a/d" (name "dA",
\* empty or with "/a/d/w"), in every order; "/z" (name "zJ") is a root file.
NFile(i, nm, c) ==
    [id |-> i, type |-> "file", kids |-> FALSE, children |-> <<>>, content |-> c,
     name |-> nm, isOpen |-> FALSE]

NFolder(i, nm, ch, open) ==
    [id |-> i, type |-> "folder", kids |-> TRUE, children |-> ch, content |-> Undef,
     name |-> nm, isOpen |-> open]

NKidNodes ==
    {NFile("/a/x", <<"x", "j">>, c) : c \in {Undef, "s1"}}
    \cup {NFile("/a/y", <<"X", "y">>, Undef)}
    \cup {NFolder("/a/d", <<"d", "A">>, ks, FALSE) : ks \in {<<>>, << NFile("/a/d/w", <<"w">>, Undef) >>}}

NKids ==
    {<<>>} \cup {<<k>> : k \in NKidNodes}
    \cup {<<k, l>> : k, l \in NKidNodes} \cup {<<k, l, m>> : k, l, m \in NKidNodes}

NANodes == {NFolder("/a", <<"a">>, ks, open) : ks \in NKids, open \in BOOLEAN}

NZNodes == {NFile("/z", <<"z", "J">>, c) : c \in {Undef, "s1"}}

\* The tree of the filter's example: folder "/a" containing file "/a/x.js".
ExampleTree == << NFolder("/a", <<"a">>, << NFile("/a/x.js", <<"x", ".", "j", "s">>, Undef) >>, FALSE) >>

\* Two trees in which the id "/z" occurs twice.
DupTrees ==
    {<< NFolder("/a", <<"a">>, << NFile("/z", <<"i", "n">>, "s1") >>, FALSE), NFile("/z", <<"z", "J">>, Undef) >>,
     << NFile("/z", <<"z", "J">>, Undef), NFolder("/a", <<"a">>, << NFile("/z", <<"i", "n">>, "s1") >>, FALSE) >>}

\* The ids of a tree in depth-first order, a node before its children.
RECURSIVE Preorder(_)
Preorder(nodes) ==
    IF nodes = <<>> THEN <<>>
    ELSE <<Head(nodes).id>> \o (IF Head(nodes).kids THEN Preorder(Head(nodes).children) ELSE <<>>)
         \o Preorder(Tail(nodes))

UniqueIds(tree) == \A j, k \in 1..Len(Preorder(tree)) : Preorder(tree)[j] = Preorder(tree)[k] => j = k

NamedUniverse ==
    {t \in ({<<>>} \cup {<<a>> : a \in NANodes} \cup {<<z>> : z \in NZNodes}
            \cup {<<a, z>> : a \in NANodes, z \in NZNodes}
            \cup {<<z, a>> : a \in NANodes, z \in NZNodes}) : UniqueIds(t)}
    \cup {ExampleTree} \cup DupTrees

HelperIds == {"/a", "/a/x", "/a/y", "/a/d", "/a/d/w", "/z", "/q"}

Terms == {<<>>, <<"x">>, <<"X">>, <<"a">>, <<"j">>, <<"x", "j">>, <<"q">>}

\* The nodes the explorer may have selected when an item is created, with
\* the directory dir the backend listed each in: the id is dir + sep + name,
\* sep the platform's separator; a name may hold a backslash on POSIX.
PathNode(dir, sep, name, type) ==
    [found |-> TRUE, id |-> dir \o sep \o name, type |-> type, dir |-> dir]

CreateNodes ==
    {PathNode(dir, <<"/">>, name, type) :
        dir \in {<<>>, <<"/", "p">>, <<"p">>, <<"/", "p", "/", "q">>},
        name \in {<<"x">>, <<"a", "\\", "b">>}, type \in {"file", "folder"}}
    \cup {PathNode(dir, <<"\\">>, <<"x">>, type) :
        dir \in {<<"C:">>, <<"C:", "\\", "p">>, <<"C:", "/", "p">>}, type \in {"file", "folder"}}
    \cup {PathNode(<<>>, <<>>, <<"x">>, type) : type \in {"file", "folder"}}

NewNames == {<<"n">>}

HelperInit ==
    /\ InitApp
    /\ pTree \in NamedUniverse
    /\ pShape = <<>>
    /\ pOut = <<>>
    /\ pOp = "none"
    /\ pArg = NoArg

Applied(op, out, arg) ==
    /\ pOp = "none"
    /\ pOp' = op
    /\ pOut' = out
    /\ pArg' = arg
    /\ UNCHANGED <<pTree, pShape, syncVars, saveVars, wsVars, histVars, chatVars, deleteReqs, logVars, outerVars>>

\* filterNodes(pTree, term).
ApplyFilter(term) == Applied("filter", filterNodes(pTree, term), [NoArg EXCEPT !.term = term])

\* displayedFiles for the search term.
ApplyDisplay(term) == Applied("display", displayedFiles(pTree, term), [NoArg EXCEPT !.term = term])

\* updateFileContent(pTree, fileId, newContent).
ApplyUpdate(fileId, newContent) ==
    Applied("update", updateFileContent(pTree, fileId, newContent),
            [NoArg EXCEPT !.id = fileId, !.content = newContent])

\* findNodeById(pTree, id).
ApplyFind(id) == Applied("find", findNodeById(pTree, id), [NoArg EXCEPT !.id = id])

\* flattenFiles(pTree).
ApplyFlatten == Applied("flatten", flattenFiles(pTree, <<>>), NoArg)

\* handleCreateItem's path, for a selection and a name.
ApplyCreate(selected, node, newItemName) ==
    /\ pTree = <<>>
    /\ Applied("create", fullPathOf(basePathOf(selected, node), newItemName),
               [NoArg EXCEPT !.selected = selected, !.node = node, !.name = newItemName])

HelperNext ==
    \/ \E term \in Terms : ApplyFilter(term)
    \/ \E term \in Terms : ApplyDisplay(term)
    \/ \E fileId \in HelperIds, newContent \in Typed : ApplyUpdate(fileId, newContent)
    \/ \E id \in HelperIds : ApplyFind(id)
    \/ ApplyFlatten
    \/ \E node \in CreateNodes \cup {NoNode}, selected \in BOOLEAN, newItemName \in NewNames :
        (node.found => selected) /\ ApplyCreate(selected, node, newItemName)

HelperSpec == HelperInit /\ [][HelperNext]_vars

\* ------------------------------------------------------------------ claims

\* File f has a write that is pending (its edit is in the slot and the
\* debounce timer is running) or in flight (its POST has not settled).
WritePending(f) == debounceTimer /\ fileToSave # NoSave /\ fileToSave # debouncedSaveData /\ fileToSave.id = f

WriteInFlight(f) == \E req \in saveReqs : req.id = f

Busy(f) == WritePending(f) \/ WriteInFlight(f)

\* A step that handles a file_change notification: the only one that issues
\* a GET /files.
FileChangeHandled == treeReqs' = treeReqs + 1

\* C1: whenever a file_change notification is handled while a file f has a
\* write pending or in flight, the handler issues no content re-fetch for f
\* and one for every other open file (that has no such write itself).
C1_RefreshSkipsBusyFile ==
    [][FileChangeHandled =>
        \A f \in Ids : Busy(f) =>
            /\ contentReqs'[f] = contentReqs[f]
            /\ \A g \in SeqToSet(openFiles) : ~Busy(g) => contentReqs'[g] = contentReqs[g] + 1]_vars

\* File f has a local edit that the backend has not acknowledged.
Unacked(f) == latest[f].ver > 0 /\ latest[f].ver \notin acked

\* A step that commits the answer of a server-driven refresh: a GET /files
\* or a GET /files/content completes.
RefreshCompletes == treeReqs' < treeReqs \/ \E i \in Ids : contentReqs'[i] < contentReqs[i]

\* C2: the content the tree holds for a file with an unacknowledged local
\* edit is never replaced by the result of a server-driven refresh.
C2_RefreshKeepsUnackedEdit ==
    [][RefreshCompletes =>
        \A f \in Ids :
            (Unacked(f) /\ findNodeById(files, f).found /\ findNodeById(files', f).found)
            => findNodeById(files', f).node.content = findNodeById(files, f).node.content]_vars

\* The debounce timer elapses in this step.
Elapses == debounceTimer /\ ~debounceTimer'

\* The edits since the timer last elapsed are N >= 1 edits of one file.
SameFileBurst == burst # <<>> /\ \A k \in 1..Len(burst) : burst[k] = burst[1]

\* The write a burst of edits of file f must produce: f's latest edit.
WriteOf(f) == [id |-> f, content |-> latest[f].content, ver |-> latest[f].ver]

\* C5: N >= 1 edits of one file, each within the debounce window of the
\* previous one, then a quiet window, produce exactly one POST /files/save:
\* none while the edits come, one when the window elapses, with the file's
\* id and the content of the Nth edit.
C5_DebounceCoalesces ==
    [][/\ (posted' # posted \/ saveReqs' \ saveReqs # {}) => Elapses
       /\ (Elapses /\ SameFileBurst) =>
            /\ WriteOf(burst[1]) \notin posted
            /\ posted' = posted \cup {WriteOf(burst[1])}
            /\ saveReqs' = saveReqs \cup {WriteOf(burst[1])}]_vars

\* C5's case: two edits of one file were coalesced into one write, which
\* carries the second edit.
C5_Witness ==
    \E f \in Ids :
        /\ latest[f].ver = 2
        /\ \A i \in Ids \ {f} : latest[i].ver = 0
        /\ posted = {WriteOf(f)}

\* Nothing is pending: no debounce timer runs and no POST is in flight.
Quiet == ~debounceTimer /\ saveReqs = {}

\* C6: edits to different files do not interfere: once nothing is pending any
\* more, a write carrying the latest content of every edited file was issued.
C6_EveryEditedFileIsWritten ==
    Quiet => \A f \in Ids : latest[f].ver > 0 => WriteOf(f) \in posted

\* C7: after a write has failed it is not retried and the pending marker no
\* longer names it (the marker is cleared regardless).
C7_FailedWriteClearsMarker ==
    \A v \in failed :
        /\ fileToSaveRef.ver # v
        /\ \A req \in saveReqs : req.ver # v

\* The ids of a tree's nodes, and of its file nodes.
AllIdsOf(tree) == {node.id : node \in NodesOf(tree)}

FileIdsOf(tree) == {node.id : node \in {n \in NodesOf(tree) : n.type = "file"}}

\* The tree without its contents: ids, types, hierarchy and order.
RECURSIVE ShapeOf(_)
ShapeOf(nodes) ==
    [k \in 1..Len(nodes) |->
        [nodes[k] EXCEPT !.content = Undef, !.children = ShapeOf(nodes[k].children)]]

\* The content the old tree has loaded for file id i, Undef if none.
LoadedIn(tree, i) ==
    IF \E n \in NodesOf(tree) : n.id = i /\ n.type = "file" /\ n.content # Undef
    THEN (CHOOSE n \in NodesOf(tree) : n.id = i /\ n.type = "file" /\ n.content # Undef).content
    ELSE Undef

\* C3: merge preserves content: every file of the old tree that holds a
\* content C, and whose id the new shape still contains, is in the merged
\* tree with content C (also a content that a local edit produced).
C3_MergePreservesContent ==
    pOp = "merge" =>
        \A f \in NodesOf(pTree) :
            (f.type = "file" /\ f.content # Undef /\ f.id \in AllIdsOf(pShape))
            => \E m \in NodesOf(pOut) : m.id = f.id /\ m.content = f.content

\* C3's case: a merge kept the content an edit produced, in a file nested in
\* a folder, while the shape around it changed.
C3_Witness ==
    /\ pOp = "merge"
    /\ ShapeOf(pTree) # pShape
    /\ \E f \in NodesOf(pTree) : \E m \in NodesOf(pOut) :
        f.id = "/a/x" /\ f.content = "e1" /\ m.id = f.id /\ m.content = "e1"

\* C4: the merged tree has exactly the shape of the new tree; an id the new
\* shape omits is not in it, and a file whose id the old tree had not loaded
\* has content undefined (a loaded one has the old content).
C4_MergeHasNewShape ==
    pOp = "merge" =>
        /\ ShapeOf(pOut) = pShape
        /\ AllIdsOf(pOut) = AllIdsOf(pShape)
        /\ \A m \in NodesOf(pOut) : m.type = "file" => m.content = LoadedIn(pTree, m.id)

\* C4's case: the new shape omits a loaded file of the old tree and brings a
\* file the old tree did not have.
C4_Witness ==
    /\ pOp = "merge"
    /\ \E f \in NodesOf(pTree) :
        f.type = "file" /\ f.content # Undef /\ f.id \notin AllIdsOf(pOut)
    /\ \E m \in NodesOf(pOut) :
        m.type = "file" /\ m.id \notin AllIdsOf(pTree) /\ m.content = Undef

\* The step commits the answer of a GET /files, or runs a scheduled callback
\* that opens tabs.
TreeAnswered == treeReqs' = treeReqs - 1

OpensTabs == timeouts # <<>> /\ timeouts' = Tail(timeouts) /\ Head(timeouts).kind = "open"

\* The tail of timeouts' that the step appended.
Appended == SubSeq(timeouts', Len(timeouts) + 1, Len(timeouts'))

\* The id of the set ids that the traversal of the tree discovers last.
LastDiscovered(tree, ids) ==
    LET order == MapKeys(flattenFiles(tree, <<>>)) IN
    order[CHOOSE k \in 1..Len(order) :
            order[k] \in ids /\ \A j \in (k + 1)..Len(order) : order[j] \notin ids]

\* New-file detection, for N the new ids of the step: a refresh of a
\* non-empty tree with N non-empty schedules the opening of exactly N, the
\* last discovered last, and any other refresh schedules no opening; the
\* refresh itself changes neither the tabs nor the active id. The callback
\* leaves every id of N open, none twice, the tabs there were in place, the
\* last discovered id active, and fetches the content of that id alone.
NewFileDetection(N) ==
    /\ TreeAnswered =>
        /\ openFiles' = openFiles /\ activeFileId' = activeFileId
        /\ contentReqs' = contentReqs
        /\ IF files # <<>> /\ N # {}
           THEN /\ Len(Appended) = 1
                /\ Appended[1].kind = "open"
                /\ SeqToSet(Appended[1].ids) = N
                /\ Len(Appended[1].ids) = Cardinality(N)
                /\ Appended[1].ids[Len(Appended[1].ids)] = LastDiscovered(files', N)
           ELSE \A k \in 1..Len(Appended) : Appended[k].kind # "open"
    /\ OpensTabs =>
        LET ids == Head(timeouts).ids IN
        /\ SeqToSet(openFiles') = SeqToSet(openFiles) \cup SeqToSet(ids)
        /\ SubSeq(openFiles', 1, Len(openFiles)) = openFiles
        /\ Len(openFiles') = Len(openFiles) + Cardinality(SeqToSet(ids) \ SeqToSet(openFiles))
        /\ activeFileId' = ids[Len(ids)]
        /\ contentReqs' = [contentReqs EXCEPT ![ids[Len(ids)]] = @ + 1]

\* C8 as stated: N is the file ids of the new shape that are absent from the
\* old tree.
C8_NewFilesAbsentFromOldTree ==
    [][NewFileDetection(FileIdsOf(files') \ AllIdsOf(files))]_vars

\* C8 as amended: N is the file ids of the new shape that are not ids of
\* files of the old tree (an id that was a folder and is now a file is new).
C8_NewFilesNotFilesOfOldTree ==
    [][NewFileDetection(FileIdsOf(files') \ FileIdsOf(files))]_vars

\* C8's case: a refresh of a non-empty tree found two new files, one of them
\* already open as a tab, and has scheduled their opening.
C8_Witness ==
    /\ ShapeOf(files) = T3
    /\ openFiles = <<"/z">>
    /\ timeouts = << OpenTabs(<<"/a/y", "/z">>) >>

\* Every close of the channel, from CONNECTING or from OPEN, leaves the
\* 3-second timer pending; the timer stays pending while the channel is
\* closed; and a closed channel leads to a new connection attempt.
\* C9: reconnection is unconditional and indefinite.
C9_AlwaysReconnects ==
    /\ [][(wsState # "CLOSED" /\ wsState' = "CLOSED") => reconnectTimer']_vars
    /\ [](wsState = "CLOSED" => reconnectTimer)
    /\ (wsState = "CLOSED") ~> (wsState = "CONNECTING")

\* C9's case: the client is connecting again after a connection that had
\* opened (it handled a notification) was closed.
C9_Witness == wsState = "CONNECTING" /\ treeReqs = MaxTreeReqs /\ ~reconnectTimer

\* C10: the client starts in CONNECTING with the connectivity flag false,
\* and the flag is true exactly while the current channel is open.
C10_FlagOnlyWhileOpen ==
    /\ wsState = "CONNECTING" /\ ~connected
    /\ [](connected <=> wsState = "OPEN")

\* C10's case: the flag is false again, after an open channel closed.
C10_Witness == wsState = "CLOSED" /\ ~connected /\ treeReqs = MaxTreeReqs

\* onmessage handles a frame in this step: the frame is lastFrame'.
Dispatches == received' = received + 1

\* The text a frame carries, the empty text when it carries none.
CarriedText(raw) == IF raw.hasText THEN raw.text ELSE <<>>

AgentTurnTypes == {"agent_response", "agent_chunk", "agent_error"}

IsFileChange(raw) == raw.json = "object" /\ raw.type = "system_event" /\ raw.event = "file_change"

IsChunk(raw) == raw.json = "object" /\ raw.type = "agent_chunk"

IsFinal(raw) == raw.json = "object" /\ raw.type \in {"agent_response", "agent_error"}

\* The frame is not a JSON object: text that does not parse, or null.
IsMalformed(raw) == raw.json \in {"bad", "null"}

IsUnrecognized(raw) ==
    raw.json = "object" /\ ~IsFileChange(raw) /\ raw.type \notin AgentTurnTypes

\* C11: a malformed inbound payload is caught for that message only: the
\* step that handles it changes neither the connection, the tree, the open
\* files, the chat messages nor the processing flag and issues no request,
\* the channel stays open, and the frames that follow a caught one are
\* dispatched normally (a file_change issues the tree fetch, a chunk or a
\* full message changes the chat, a full message clears the flag).
C11_MalformedFrameIsDropped ==
    /\ [][(Dispatches /\ IsMalformed(lastFrame')) =>
            /\ UNCHANGED <<wsState, connected, reconnectTimer, files, openFiles, activeFileId>>
            /\ UNCHANGED <<messages, isProcessing, treeReqs, contentReqs>>
            /\ wsState' = "OPEN"
            /\ wsErrors' = wsErrors + 1]_vars
    /\ [][(Dispatches /\ wsErrors > 0) =>
            /\ IsFileChange(lastFrame') => treeReqs' = treeReqs + 1
            /\ (IsChunk(lastFrame') /\ CarriedText(lastFrame') # <<>>) => messages' # messages
            /\ IsFinal(lastFrame') => (Len(messages') = Len(messages) + 1 /\ ~isProcessing')]_vars

\* C11's case: a frame that does not parse was caught while the agent was
\* working, and the chunk that followed it was shown.
C11_Witness ==
    /\ wsErrors = 1 /\ received = 2 /\ wsState = "OPEN" /\ isProcessing
    /\ lastFrame.type = "agent_chunk"
    /\ messages = << AgentMsg(INITIAL_MESSAGE, FALSE), UserMsg(<<"q">>), AgentMsg(<<"c">>, TRUE) >>

\* C12: an inbound event of an unrecognized kind (also a system_event whose
\* event is not file_change) is ignored: no fetch is issued, the chat messages
\* and the processing flag are unchanged, the connection stays open.
C12_UnrecognizedKindIsIgnored ==
    [][(Dispatches /\ IsUnrecognized(lastFrame')) =>
        /\ UNCHANGED <<treeReqs, contentReqs, saveReqs, deleteReqs, files, openFiles>>
        /\ UNCHANGED <<messages, isProcessing, wsErrors>>
        /\ UNCHANGED <<wsState, connected, reconnectTimer>>
        /\ wsState' = "OPEN"]_vars

\* C12's case: a system_event that is not a file_change arrived while a file
\* was open and the agent was working.
C12_Witness ==
    /\ lastFrame.type = "system_event" /\ lastFrame.event = "heartbeat"
    /\ openFiles # <<>> /\ isProcessing /\ connected

\* C13: an agent_chunk appends its text to the last message when that is an
\* in-progress agent message, and the number of messages stays; otherwise
\* it appends one new in-progress agent message. The sequence is never
\* empty, and a chunk does not change the processing flag.
C13_ChunkExtendsOrStarts ==
    /\ [](Len(messages) > 0)
    /\ [][(Dispatches /\ IsChunk(lastFrame')) =>
            LET lastMsg == messages[Len(messages)]
                text == CarriedText(lastFrame')
            IN /\ isProcessing' = isProcessing
               /\ IF lastMsg.role = "agent" /\ lastMsg.isStreaming
                  THEN /\ Len(messages') = Len(messages)
                       /\ SubSeq(messages', 1, Len(messages) - 1) = SubSeq(messages, 1, Len(messages) - 1)
                       /\ messages'[Len(messages)] = AgentMsg(lastMsg.text \o text, TRUE)
                  ELSE messages' = Append(messages, AgentMsg(text, TRUE))]_vars

\* C13's case: two chunks after the user's question made one message.
C13_Witness ==
    /\ received = 2
    /\ messages = << AgentMsg(INITIAL_MESSAGE, FALSE), UserMsg(<<"q">>), AgentMsg(<<"c", "c">>, TRUE) >>

\* C14: an agent_response or agent_error appends exactly one finalized agent
\* message, leaves the earlier messages as they were and clears the
\* processing flag; a chunk handled when the last frame was a full or error
\* message starts a new message instead of extending an earlier one.
C14_FinalAppendsAndClears ==
    /\ [][(Dispatches /\ IsFinal(lastFrame')) =>
            /\ messages' = Append(messages, AgentMsg(CarriedText(lastFrame'), FALSE))
            /\ ~isProcessing']_vars
    /\ [][(Dispatches /\ IsFinal(lastFrame) /\ IsChunk(lastFrame')) =>
            /\ messages' = Append(messages, AgentMsg(CarriedText(lastFrame'), TRUE))]_vars

\* C14's case: chunks, then the full response, cleared the flag, and the
\* chunk after it started a message of its own.
C14_Witness ==
    /\ ~isProcessing
    /\ messages = << AgentMsg(INITIAL_MESSAGE, FALSE), UserMsg(<<"q">>),
                     AgentMsg(<<"r">>, FALSE), AgentMsg(<<"c">>, TRUE) >>

\* The position of an id in a sequence of ids that holds it.
PosIn(ids, id) == CHOOSE k \in 1..Len(ids) : ids[k] = id

\* C15: selecting a file node records it as selected, adds its id at the end
\* of the open files if and only if it is absent (no duplicate, no
\* reordering when it is open), makes it active and issues one content
\* fetch, for it.
C15_SelectFileOpensTab ==
    [][\A node \in NodesOf(files) : (node.type = "file" /\ handleNodeSelect(node)) =>
        /\ selectedId' = node.id
        /\ activeFileId' = node.id
        /\ openFiles' = IF \E k \in 1..Len(openFiles) : openFiles[k] = node.id
                        THEN openFiles ELSE openFiles \o <<node.id>>
        /\ contentReqs' = [contentReqs EXCEPT ![node.id] = @ + 1]
        /\ files' = files]_vars

\* C15's case: a file that was open already, first of two tabs, was selected
\* again: it is active, its fetch is in flight, the tabs are as they were.
C15_Witness ==
    /\ wsState = "CONNECTING"
    /\ openFiles = <<"/a/x", "/a/y">>
    /\ activeFileId = "/a/x" /\ selectedId = "/a/x"
    /\ contentReqs["/a/x"] = 1 /\ contentReqs["/a/y"] = 0

\* C16: selecting a folder node records it as selected and changes nothing
\* else: the open files, the active id and the tree are unchanged and no
\* content fetch is issued.
C16_SelectFolderOnlySelects ==
    [][\A node \in NodesOf(files) : (node.type = "folder" /\ handleNodeSelect(node)) =>
        /\ selectedId' = node.id
        /\ UNCHANGED <<openFiles, activeFileId, files, contentReqs, treeReqs, timeouts>>]_vars

\* C16's case: the folder was selected while a file of it was open and active.
C16_Witness ==
    /\ wsState = "CONNECTING" /\ ShapeOf(files) = T1
    /\ selectedId = "/a" /\ activeFileId = "/a/x" /\ openFiles = <<"/a/x">>
    /\ \A i \in Ids : contentReqs[i] = 0

\* C17: closing a tab removes that id from the open files and keeps the order
\* of the others; if the closed file was active, the last of the remaining
\* open files becomes active, or none if no file remains; if it was not
\* active, the active id is unchanged.
C17_CloseTab ==
    [][\A fileId \in TabsShown : handleCloseFile(fileId) =>
        /\ SeqToSet(openFiles') = SeqToSet(openFiles) \ {fileId}
        /\ Len(openFiles') = Len(openFiles) - 1
        /\ \A a, b \in SeqToSet(openFiles') :
            PosIn(openFiles', a) < PosIn(openFiles', b) <=> PosIn(openFiles, a) < PosIn(openFiles, b)
        /\ activeFileId' = IF activeFileId # fileId THEN activeFileId
                           ELSE IF openFiles' = <<>> THEN Null
                           ELSE openFiles'[Len(openFiles')]]_vars

\* C17's case: a tab that was open and active when its delete was requested
\* was closed while the request is in flight: the two other tabs remain in
\* order and the last of them is active.
C17_Witness ==
    /\ deleteReqs = << [selectedId |-> "/z", includes |-> TRUE, isActive |-> TRUE] >>
    /\ openFiles = <<"/a/x", "/a/y">>
    /\ activeFileId = "/a/y"

\* C18: after the backend confirms the deletion of the selected node, the
\* node's id is not in the open files, the active id is cleared if it was
\* the deleted node, and the selection is cleared; if the delete request
\* fails, the open files, the active id and the selection are unchanged.
C18_DeleteClearsTab ==
    [][\A k \in 1..Len(deleteReqs) :
        /\ DeleteConfirmed(k) =>
            /\ deleteReqs[k].selectedId \notin SeqToSet(openFiles')
            /\ activeFileId = deleteReqs[k].selectedId => activeFileId' = Null
            /\ selectedId' = Null
        /\ DeleteFails(k) => UNCHANGED <<openFiles, activeFileId, selectedId>>]_vars

\* C19: tree-shape merges are atomic: every step that changes the shape of
\* the working tree leaves, in the same step, every file that had loaded
\* content and still exists in the new shape with that content, so no state
\* shows the new shape with the content missing.
C19_MergeIsOneStep ==
    [][ShapeOf(files') # ShapeOf(files) =>
        /\ treeReqs' = treeReqs - 1
        /\ \A f \in NodesOf(files) :
            (f.type = "file" /\ f.content # Undef /\ f.id \in AllIdsOf(files'))
            => \E m \in NodesOf(files') : m.id = f.id /\ m.content = f.content]_vars

\* C19's case: the refresh from T1 to T3 has just been committed (the opening
\* of its two new files is still scheduled) and "/a/x" has its loaded content.
C19_Witness ==
    /\ ShapeOf(files) = T3
    /\ timeouts = << OpenTabs(<<"/a/y", "/z">>) >>
    /\ findNodeById(files, "/a/x").node.content = "s1"

\* C20: in every state of the working tree, a file node has no children and
\* a folder node has no content, whatever refreshes and content fetches
\* have happened (every backend shape satisfies this).
C20_FilesHaveNoChildrenFoldersNoContent ==
    \A n \in NodesOf(files) :
        /\ n.type = "file" => (~n.kids /\ n.children = <<>>)
        /\ n.type = "folder" => n.content = Undef

\* A node's name contains the term, case-insensitively.
Matches(n, term) ==
    \E i \in 0..(Len(n.name) - Len(term)) :
        \A k \in 1..Len(term) :
            LET c == n.name[i + k]
                t == term[k]
                low(ch) == IF ch = "X" THEN "x" ELSE IF ch = "J" THEN "j" ELSE IF ch = "A" THEN "a" ELSE ch
            IN low(c) = low(t)

Descendants(n) == IF n.kids THEN NodesOf(n.children) ELSE {}

\* The nodes a filter must retain.
MustKeep(tree, term) ==
    {n \in NodesOf(tree) :
        IF n.type = "file" THEN Matches(n, term)
        ELSE Matches(n, term) \/ \E d \in Descendants(n) : Matches(d, term)}

\* The pairs <<parent id, child id>> of a tree (the parent of a root is Null).
RECURSIVE Edges(_, _)
Edges(nodes, parent) ==
    IF nodes = <<>> THEN {}
    ELSE {<<parent, Head(nodes).id>>}
         \cup (IF Head(nodes).kids THEN Edges(Head(nodes).children, Head(nodes).id) ELSE {})
         \cup Edges(Tail(nodes), parent)

\* The node of a tree with unique ids that has the id.
NodeWith(tree, id) == CHOOSE n \in NodesOf(tree) : n.id = id

\* A node without its subtree.
Own(n) == [n EXCEPT !.children = <<>>]

SameOrder(out, in) ==
    \A a, b \in AllIdsOf(out) :
        PosIn(Preorder(out), a) < PosIn(Preorder(out), b) <=> PosIn(Preorder(in), a) < PosIn(Preorder(in), b)

\* C21: filterNodes(tree, term) for a non-empty term returns exactly the files
\* whose name contains term case-insensitively and the folders that match by
\* name or contain a matching descendant, in their original hierarchy and
\* relative order, every retained folder with isOpen = true; for the folder
\* "/a" containing "/a/x.js" and the term "x" it returns the folder,
\* expanded, with the file.
C21_FilterKeepsMatches ==
    (pOp = "filter" /\ pArg.term # <<>> /\ UniqueIds(pTree)) =>
        /\ AllIdsOf(pOut) = {n.id : n \in MustKeep(pTree, pArg.term)}
        /\ UniqueIds(pOut)
        /\ Edges(pOut, Null) \subseteq Edges(pTree, Null)
        /\ SameOrder(pOut, pTree)
        /\ \A m \in NodesOf(pOut) :
            IF m.type = "file" THEN m = NodeWith(pTree, m.id)
            ELSE /\ m.isOpen
                 /\ [Own(m) EXCEPT !.isOpen = FALSE] = [Own(NodeWith(pTree, m.id)) EXCEPT !.isOpen = FALSE]
        /\ (pTree = ExampleTree /\ pArg.term = <<"x">>) =>
            pOut = << [ExampleTree[1] EXCEPT !.isOpen = TRUE] >>

\* C21's case: the example, and a filter that matches by case only.
C21_Witness ==
    /\ pOp = "filter" /\ pTree = ExampleTree /\ pArg.term = <<"x">>
    /\ Len(pOut) = 1 /\ pOut[1].isOpen /\ Len(pOut[1].children) = 1

\* A tree with every folder expanded.
RECURSIVE Expanded(_)
Expanded(nodes) ==
    [k \in 1..Len(nodes) |->
        IF nodes[k].type = "folder"
        THEN [nodes[k] EXCEPT !.isOpen = TRUE, !.children = Expanded(nodes[k].children)]
        ELSE nodes[k]]

\* C22 as stated: filterNodes(tree, "") returns the full tree unchanged, and
\* the caller displays the unfiltered tree for an empty term.
C22_EmptyTermReturnsInput ==
    /\ (pOp = "filter" /\ pArg.term = <<>>) => pOut = pTree
    /\ (pOp = "display" /\ pArg.term = <<>>) => pOut = pTree

\* C22 as amended: filterNodes(tree, "") returns every node of the tree, in
\* its hierarchy and order, unchanged but for isOpen = true on every folder;
\* the caller displays the tree itself for an empty term and the filtered
\* tree for any other.
C22_EmptyTermExpandsFolders ==
    /\ (pOp = "filter" /\ pArg.term = <<>>) => pOut = Expanded(pTree)
    /\ (pOp = "display" /\ pArg.term = <<>>) => pOut = pTree
    /\ (pOp = "display" /\ pArg.term # <<>> /\ UniqueIds(pTree)) =>
        AllIdsOf(pOut) = {n.id : n \in MustKeep(pTree, pArg.term)}

\* C22's case: the empty term applied to a tree with closed folders.
C22_Witness ==
    /\ pOp = "filter" /\ pArg.term = <<>>
    /\ Len(pTree) = 2 /\ pTree[1].type = "folder" /\ ~pTree[1].isOpen
    /\ pOut[1].isOpen /\ Len(pOut[1].children) = 3

\* C23: updateFileContent(tree, id, newContent) returns a tree in which the
\* node matching id has content newContent and every other node, the
\* hierarchy and the order are as in the input; with no matching node the
\* result equals the input.
C23_UpdateChangesOneNode ==
    (pOp = "update" /\ UniqueIds(pTree)) =>
        /\ Preorder(pOut) = Preorder(pTree)
        /\ Edges(pOut, Null) = Edges(pTree, Null)
        /\ \A m \in NodesOf(pOut) :
            Own(m) = IF m.id = pArg.id
                     THEN [Own(NodeWith(pTree, m.id)) EXCEPT !.content = pArg.content]
                     ELSE Own(NodeWith(pTree, m.id))
        /\ pArg.id \notin AllIdsOf(pTree) => pOut = pTree

\* C23's case: a file two folders deep was updated in a tree of two roots.
C23_Witness ==
    /\ pOp = "update" /\ pArg.id = "/a/d/w" /\ Len(pTree) = 2
    /\ \E m \in NodesOf(pOut) : m.id = "/a/d/w" /\ m.content = "e1"

\* The nodes of a tree in depth-first order, a node before its children.
RECURSIVE PreorderNodes(_)
PreorderNodes(nodes) ==
    IF nodes = <<>> THEN <<>>
    ELSE <<Head(nodes)>> \o (IF Head(nodes).kids THEN PreorderNodes(Head(nodes).children) ELSE <<>>)
         \o PreorderNodes(Tail(nodes))

\* C24: findNodeById(tree, id) returns the node with the id when the tree has
\* one, at any depth, and null otherwise; of several nodes with the id it
\* returns the first in depth-first order.
C24_FindReturnsFirstMatch ==
    pOp = "find" =>
        LET order == PreorderNodes(pTree) IN
        IF \E k \in 1..Len(order) : order[k].id = pArg.id
        THEN /\ pOut.found
             /\ pOut.node = order[CHOOSE k \in 1..Len(order) :
                                    order[k].id = pArg.id /\ \A j \in 1..(k - 1) : order[j].id # pArg.id]
        ELSE ~pOut.found

\* C24's case: of two nodes with the id, the nested one comes first.
C24_Witness ==
    /\ pOp = "find" /\ pArg.id = "/z" /\ ~UniqueIds(pTree)
    /\ pTree[1].type = "folder"
    /\ pOut.found /\ pOut.node.name = <<"i", "n">>

\* C25 as stated: the key set of flatten(tree) is the set of the ids of all
\* the nodes of the tree, files and folders both, each id mapped to its node.
C25_FlattenIndexesAllNodes ==
    (pOp = "flatten" /\ UniqueIds(pTree)) =>
        /\ SeqToSet(MapKeys(pOut)) = AllIdsOf(pTree)
        /\ \A k \in 1..Len(pOut) : pOut[k][2] = NodeWith(pTree, pOut[k][1])

\* C25 as amended: the key set of flattenFiles(tree) is the set of the ids of
\* the file nodes of the tree, at any depth; no folder is indexed; each key
\* occurs once and is mapped to its node.
C25_FlattenIndexesFiles ==
    (pOp = "flatten" /\ UniqueIds(pTree)) =>
        /\ SeqToSet(MapKeys(pOut)) = FileIdsOf(pTree)
        /\ Len(pOut) = Cardinality(FileIdsOf(pTree))
        /\ \A k \in 1..Len(pOut) : pOut[k][2] = NodeWith(pTree, pOut[k][1])

\* C25's case: a tree with nested folders and files was flattened.
C25_Witness ==
    /\ pOp = "flatten"
    /\ {"/a", "/a/d"} \subseteq AllIdsOf(pTree)
    /\ SeqToSet(MapKeys(pOut)) = {"/a/x", "/a/d/w", "/z"}

\* C28: the path of a new item is parent + separator + name, where parent is
\* the selected folder's id or the directory that contains the selected
\* file, and the separator is a backslash if and only if that parent holds a
\* backslash; with no selection, or an empty parent, it is the name alone.
C28_CreatePathIsParentSepName ==
    pOp = "create" =>
        LET node == pArg.node
            parent == IF ~pArg.selected \/ ~node.found THEN <<>>
                      ELSE IF node.type = "folder" THEN node.id ELSE node.dir
            sep == IF \E k \in 1..Len(parent) : parent[k] = "\\" THEN "\\" ELSE "/"
        IN pOut = IF parent = <<>> THEN pArg.name ELSE parent \o <<sep>> \o pArg.name

\* A step in which a tree fetch or a content fetch fails.
TreeFetchFails == fetchFileTreeFails

ContentFetchFails == \E fileId \in Ids : fetchFileContentFails(fileId)

\* C26: a transport failure leaves the state in its last-known-good value: a
\* tree fetch that throws or answers {error} leaves the tree, the open files
\* and the active id unchanged and schedules nothing; a content fetch that
\* throws or answers without a content field leaves the tree unchanged; the
\* connection state is unchanged by either.
C26_FailureLeavesState ==
    [][/\ TreeFetchFails =>
            /\ UNCHANGED <<files, openFiles, activeFileId, selectedId, timeouts, contentReqs>>
            /\ UNCHANGED <<wsState, connected, reconnectTimer>>
       /\ ContentFetchFails =>
            /\ UNCHANGED <<files, openFiles, activeFileId, selectedId, timeouts, treeReqs>>
            /\ UNCHANGED <<wsState, connected, reconnectTimer>>]_vars

\* C26's case: the tree fetch of the mount has failed; the tree is still the
\* empty tree and the channel is open.
C26_Witness ==
    /\ treeReqs = 0 /\ files = <<>>
    /\ wsState = "OPEN" /\ connected

\* A step in which handleDeleteItem showed alert(), or confirm() was declined.
DeleteBlocked == dialogs' # dialogs

\* C27: a delete with nothing selected, or one the user does not confirm,
\* issues no backend request and changes no state (tree, open files, active
\* id, selection); it shows in the blocking alert or confirmation only.
C27_BlockedDeleteChangesNothing ==
    [][/\ \A confirmed \in BOOLEAN :
            (handleDeleteItem(confirmed) /\ (selectedId = Null \/ ~confirmed)) => DeleteBlocked
       /\ DeleteBlocked =>
            /\ UNCHANGED <<deleteReqs, saveReqs, treeReqs, contentReqs, timeouts>>
            /\ UNCHANGED <<files, openFiles, activeFileId, selectedId>>]_vars

\* C27's case: a delete with nothing selected, then a declined delete of a
\* selected node with open tabs.
C27_Witness ==
    /\ dialogs = <<"alert", "declined">>
    /\ deleteReqs = <<>>
    /\ selectedId # Null /\ openFiles # <<>>

\* A step in which an edit is typed.
Edits == NumEdits' = NumEdits + 1

\* The file of the latest edit.
EditedAfter(f) == latest'[f].ver = NumEdits'

\* C29: the pending-save slot holds one pair: an edit replaces the pair
\* wholesale by its own and restarts the debounce window, issuing nothing;
\* a write is issued only for the pair the slot holds, which is the latest
\* edit, so the pending write of a file is dropped, and never issued, when
\* another file is edited before the window elapses.
C29_SlotHoldsLatestEditOnly ==
    [][/\ Edits =>
            /\ \E f \in Ids : /\ EditedAfter(f)
                              /\ fileToSave' = [id |-> f, content |-> latest'[f].content, ver |-> NumEdits']
            /\ debounceTimer'
            /\ posted' = posted /\ saveReqs' = saveReqs
       /\ \A w \in posted' \ posted : w = fileToSave /\ w.ver = NumEdits]_vars

\* C29's case: /a/x was edited, then /a/y within the window; nothing is
\* pending any more and the one write issued is /a/y's.
C29_Witness ==
    /\ latest["/a/x"].ver = 1 /\ latest["/a/y"].ver = 2
    /\ Quiet
    /\ posted = {WriteOf("/a/y")}

\* A step in which the write of the latest edit is acknowledged.
LatestAcked == NumEdits \in acked' \ acked

\* C30: when a write is acknowledged and no newer edit of any file was made
\* since it was issued, the pending marker is cleared, and while no edit is
\* made a file_change notification re-fetches every open file, the written
\* one included.
C30_AckedFileIsRefetched ==
    [][/\ LatestAcked => fileToSaveRef' = NoSave
       /\ (FileChangeHandled /\ NumEdits > 0 /\ NumEdits \in acked) =>
            /\ fileToSaveRef = NoSave
            /\ \A f \in SeqToSet(openFiles) : contentReqs'[f] = contentReqs[f] + 1]_vars

\* C30's case: the write of the latest edit was acknowledged, then the next
\* notification re-fetched the written file, which is open.
C30_Witness ==
    \E f \in Ids :
        /\ latest[f].ver = NumEdits /\ NumEdits > 0
        /\ sinceAck.notified
        /\ f \in SeqToSet(sinceAck.refetched)
        /\ f \in SeqToSet(openFiles)
        /\ contentReqs[f] = 1

\* No GET /files is in flight and no scheduled callback is pending.
RefreshSettled == treeReqs = 0 /\ timeouts = <<>>

\* C33: the open files and the active id stay consistent with the tree: once
\* a refresh has committed a shape in which an open file's id no longer
\* exists, and nothing of the refresh is pending any more, the id is not in
\* the open files and is not the active id.
C33_OpenFilesExistInTree ==
    (RefreshSettled /\ files # <<>>) =>
        /\ \A id \in SeqToSet(openFiles) : id \in FileIdsOf(files)
        /\ activeFileId # Null => activeFileId \in FileIdsOf(files)

\* C34: no update of the open files or of the active id is lost: a delete
\* confirmation removes the deleted id, and only it, from the open files as
\* they are at the confirmation, and clears the active id if and only if the
\* deleted id is active at the confirmation.
C34_DeleteSeesCurrentTabs ==
    [][\A k \in 1..Len(deleteReqs) :
        DeleteConfirmed(k) =>
            /\ openFiles' = Without(openFiles, deleteReqs[k].selectedId)
            /\ activeFileId' = IF activeFileId = deleteReqs[k].selectedId THEN Null
                               ELSE activeFileId]_vars

\* C36: in every state the active id is none or one of the open files.
C36_ActiveIsOpen == activeFileId = Null \/ activeFileId \in SeqToSet(openFiles)

\* C36's case: two tabs are open in the tree with /z and, after a click on
\* the first tab, the active tab is not the last one.
C36_Witness ==
    /\ Len(openFiles) = 2 /\ activeFileId = openFiles[1]
    /\ selectedId = activeFileId
    /\ deleteReqs = <<>> /\ "/z" \in FileIdsOf(files)

NoDuplicates(ids) == \A j, k \in 1..Len(ids) : ids[j] = ids[k] => j = k

IsPrefix(s, t) == Len(s) <= Len(t) /\ SubSeq(t, 1, Len(s)) = s

\* C37: the open files never hold an id twice and keep insertion order: a
\* step appends ids at the end, or removes one id and keeps the order of the
\* others, or leaves the sequence alone; a tree refresh leaves it alone.
C37_TabsKeepInsertionOrder ==
    [][/\ NoDuplicates(openFiles')
       /\ \/ IsPrefix(openFiles, openFiles')
          \/ \E id \in SeqToSet(openFiles) : openFiles' = Without(openFiles, id)
       /\ TreeAnswered => openFiles' = openFiles]_vars

\* C37's case: /z was opened before /a/x, while the tree's order is /a/x,
\* /a/y, /z.
C37_Witness ==
    /\ openFiles = <<"/z", "/a/x">>
    /\ MapKeys(flattenFiles(files, <<>>)) = <<"/a/x", "/a/y", "/z">>

\* The ids a step's scheduled callback opens as tabs.
IdsOpened == SeqToSet(Head(timeouts).ids)

\* The commit of a refresh opens no tab, activates nothing and fetches no
\* content; the callback that does is one that was pending before the step.
OpensAfterCommit ==
    /\ TreeAnswered => UNCHANGED <<openFiles, activeFileId, contentReqs>>
    /\ OpensTabs =>
        /\ files' = files
        /\ IdsOpened \subseteq SeqToSet(openFiles')
        /\ activeFileId' \in IdsOpened
        /\ contentReqs' = IssueFetch(contentReqs, activeFileId')

C40_MergeIsIdempotent ==
    /\ pOp = "remerge" => pOut = pTree
    /\ (pOp = "merge" /\ pShape = ShapeOf(pTree)) => pOut = pTree

\* C31: on a refresh whose old tree is empty (first load) no new-file diffing
\* takes place: no tab is opened, the active id is not changed and no opening
\* is scheduled; and if the active id exists in the new shape, a content
\* re-fetch for it, and nothing else, is scheduled.
C31_FirstLoadRefetchesActive ==
    [][(TreeAnswered /\ files = <<>>) =>
        /\ UNCHANGED <<openFiles, activeFileId, contentReqs>>
        /\ \A k \in 1..Len(Appended) : Appended[k].kind # "open"
        /\ (activeFileId # Null /\ activeFileId \in AllIdsOf(files')) =>
            Appended = << FetchLater(activeFileId) >>]_vars

\* The WebSockets that are connecting or open.
LiveConnections == (IF wsState \in {"CONNECTING", "OPEN"} THEN 1 ELSE 0) + orphans

\* C35: at any time at most one channel connection is live (connecting or
\* open) and, while one is live, no reconnect timer is pending; also after
\* the session is torn down and the client restarts.
C35_OneLiveConnection ==
    /\ LiveConnections <= 1
    /\ LiveConnections = 1 => ~reconnectTimer

\* C35 (as the code has it): a connection event, a reconnect or a teardown
\* never takes the client from at most one live connection with no timer
\* pending beside it to anything else; only a restart of the client, which
\* connects while the timer of the torn-down session is still pending, does.
C35_OneLiveUntilRestart ==
    [][(C35_OneLiveConnection /\ ~Remount) => C35_OneLiveConnection']_vars

\* The session was torn down while open, and its socket's onclose has left a
\* reconnect timer behind with no connection live.
C35_Witness == ~mounted /\ reconnectTimer /\ LiveConnections = 0 /\ ~connected

\* C38: when several tree refreshes are in flight at once, once all the
\* answers have been processed the shape of the working tree is the most
\* recent shape of the backend's tree, whatever the order of the answers.
C38_TreeIsLatestShape ==
    (RefreshSettled /\ served = <<>>) => ShapeOf(files) = backend

\* C39: a chat submitted while the channel is not open appends an error
\* message and leaves the processing flag clear in the same step; once the
\* flag is set by a submission it is eventually cleared, also when the
\* channel closes before an answer arrives.
C39_ProcessingIsCleared ==
    /\ [][\A inputText \in Inputs :
            (handleChatSubmit(inputText) /\ ~IsBlank(inputText) /\ wsState # "OPEN") =>
                /\ ~isProcessing'
                /\ Len(messages') = Len(messages) + 2
                /\ messages'[Len(messages')].role = "agent"]_vars
    /\ (isProcessing ~> ~isProcessing)

====
